---- MODULE Spec2Model ----
(***************************************************************************)
(* A model of terminalart/art.6.py: the raster (PBM P4) decoder and the    *)
(* mask geometry queries, the verified-sigil registry and its weighted     *)
(* draw, the excitation injection primitive, and the frame loop of main.   *)
(*                                                                         *)
(* Numbers.  Python floats are modelled by scaled integers:                *)
(*   intensities, probabilities' results and thresholds of the excitation  *)
(*   automaton in units of 1/10000 (1.0 = 10000);                          *)
(*   weights in units of 1/1000 (1.0 = 1000).                              *)
(* Byte strings are sequences of integers 0..255; Python's 0-based index   *)
(* idx reads data[idx + 1].                                                *)
(***************************************************************************)
EXTENDS Integers, Sequences, FiniteSets, TLC

VARIABLES
    pbm_bits,      \* raster spec: the bit pattern that was encoded (a function of <<x, y>>)
    pbm_shape,     \* raster spec: how the file was written (which layout variant)
    pbm_file,      \* raster spec: the file handed to load_pbm_mask: [readable, data]
    pbm_out,       \* raster spec: what load_pbm_mask returned ("pending" before the call)
    geo_bits,      \* geometry spec: the bit pattern the mask was packed from
    geo_mask,      \* geometry spec: the mask tuple the queries are made on
    geo_query,     \* geometry spec: the last query made: [kind, a, b, scale]
    geo_res,       \* geometry spec: what the queried functions returned
    reg_index,     \* registry spec: the index document on disk: [status, records]
    reg_default,   \* registry spec: the built-in raster file (LILITH_GRAND_SEAL_PBM)
    reg_pc,        \* registry spec: "import" before line 542 ran, then "loaded" or "crashed"
    sigil_globals, \* the module globals refresh_verified_sigil_registry assigns (lines 30-56)
    pick_call,     \* registry spec: the last pick_weighted_sigil_id call: [made, roll, out]
    main_pc,       \* main: "running" in the frame loop, "crashed" by an exception, "exited" by a key
    frame_no,      \* main: how many passes of the while loop (line 617) have begun
    t,             \* main: elapsed time of the current frame (line 618), in 1/100 s
    entropy_buildup,   \* main, line 603
    intent_dilation,   \* main, line 615
    active_pulses,     \* main, line 605: a sequence of [start_time, cx, cy]
    coherence_walker,  \* main, line 609
    target_coherence,  \* main, line 610
    active_sigils,     \* main, line 614: a sequence of [start_time, cx, cy, scale, type_id, life]
    excitation_grid,   \* main, line 612: a function from cells <<x, y>> to intensities
    active_sparks,     \* main, line 613: a set of cells
    frame_log,     \* main: what the last pass read and what it started from
    key_queue,     \* main: the input events curses holds for getch, oldest first
    inj_call,      \* injection spec: the last inject_sigil_excitation call and the grid before it
    glyph_safe,    \* glyph spec: the code points is_text_stream_safe_char accepts
    glyph_globals, \* glyph spec: SIGIL_BLOCKS, BLOCK_KEYS, RANDOM_FAMILY_KEYS, UNIFIED_TEXT_GLYPHS
    glyph_call,    \* glyph spec: the last get_text_glyph call and its repetition
    cell_in,       \* compositor spec: what the render loops computed for one cell
    cell_out       \* compositor spec: what the body of the loops did with the cell

pbmVars == <<pbm_bits, pbm_shape, pbm_file, pbm_out>>

geoVars == <<geo_bits, geo_mask, geo_query, geo_res>>

regVars == <<reg_index, reg_default, reg_pc, sigil_globals, pick_call>>

mainVars == <<main_pc, frame_no, t, entropy_buildup, intent_dilation, active_pulses,
              coherence_walker, target_coherence, active_sigils, excitation_grid,
              active_sparks, frame_log, key_queue, inj_call>>

glyphVars == <<glyph_safe, glyph_globals, glyph_call>>

cellVars == <<cell_in, cell_out>>

vars == <<pbmVars, geoVars, regVars, mainVars, glyphVars, cellVars>>

(***************************************************************************)
(* Small helpers.                                                          *)
(***************************************************************************)
Min(a, b) == IF a < b THEN a ELSE b

Max(a, b) == IF a > b THEN a ELSE b

Abs(a) == IF a < 0 THEN -a ELSE a

RECURSIVE Pow2(_)
Pow2(n) == IF n <= 0 THEN 1 ELSE 2 * Pow2(n - 1)

(***************************************************************************)
(* load_pbm_mask, art.6.py 281-327.                                        *)
(***************************************************************************)
\* b" \t\r\n"
PbmWhitespace == {32, 9, 13, 10}

\* b"\r\n"
PbmLineEnd == {13, 10}

\* data[idx] for Python's 0-based idx
At(data, idx) == data[idx + 1]

\* data.startswith(b"P4")
StartsWithP4(data) == Len(data) >= 2 /\ data[1] = 80 /\ data[2] = 52

\* while idx < data_len and data[idx] in b" \t\r\n": idx += 1
RECURSIVE SkipWhitespace(_, _)
SkipWhitespace(data, idx) ==
    IF idx < Len(data) /\ At(data, idx) \in PbmWhitespace
    THEN SkipWhitespace(data, idx + 1)
    ELSE idx

\* while idx < data_len and data[idx] not in b"\r\n": idx += 1
RECURSIVE SkipComment(_, _)
SkipComment(data, idx) ==
    IF idx < Len(data) /\ At(data, idx) \notin PbmLineEnd
    THEN SkipComment(data, idx + 1)
    ELSE idx

\* while idx < data_len and data[idx] not in b" \t\r\n": idx += 1
RECURSIVE SkipToken(_, _)
SkipToken(data, idx) ==
    IF idx < Len(data) /\ At(data, idx) \notin PbmWhitespace
    THEN SkipToken(data, idx + 1)
    ELSE idx

\* data[lo:hi] with Python's slice rules (a negative bound counts from the end,
\* bounds are clipped to the string)
PySlice(data, lo, hi) ==
    LET n == Len(data)
        l == IF lo < 0 THEN Max(0, n + lo) ELSE Min(lo, n)
        h == IF hi < 0 THEN Max(0, n + hi) ELSE Min(hi, n)
    IN  IF h <= l THEN <<>> ELSE SubSeq(data, l + 1, h)

\* The token loop, lines 294-307: returns the tokens read and the index reached.
RECURSIVE ReadSizeTokens(_, _, _)
ReadSizeTokens(data, idx, toks) ==
    IF ~(Len(toks) < 2 /\ idx < Len(data))
    THEN [tokens |-> toks, idx |-> idx]
    ELSE LET i1 == SkipWhitespace(data, idx)
         IN  IF i1 >= Len(data)
             THEN [tokens |-> toks, idx |-> i1]
             ELSE IF At(data, i1) = 35
                  THEN ReadSizeTokens(data, SkipComment(data, i1), toks)
                  ELSE LET i2 == SkipToken(data, i1)
                       IN  ReadSizeTokens(data, i2, Append(toks, PySlice(data, i1, i2)))

\* int(token) for a bytes token: an optional sign, then decimal digits, single
\* underscores allowed between digits; anything else is a ValueError.
IsDigit(b) == b >= 48 /\ b <= 57

RECURSIVE DigitsValid(_, _)
DigitsValid(tok, i) ==
    \* tok[i] must be a digit; then either the end, a digit, or "_" digit
    /\ i <= Len(tok)
    /\ IsDigit(tok[i])
    /\ \/ i = Len(tok)
       \/ /\ i < Len(tok)
          /\ IF tok[i + 1] = 95 THEN DigitsValid(tok, i + 2) ELSE DigitsValid(tok, i + 1)

RECURSIVE DigitsValue(_, _, _)
DigitsValue(tok, i, acc) ==
    IF i > Len(tok) THEN acc
    ELSE IF tok[i] = 95 THEN DigitsValue(tok, i + 1, acc)
    ELSE DigitsValue(tok, i + 1, acc * 10 + (tok[i] - 48))

PyInt(tok) ==
    LET signed == Len(tok) >= 1 /\ tok[1] \in {43, 45}
        first  == IF signed THEN 2 ELSE 1
    IN  IF DigitsValid(tok, first)
        THEN [ok |-> TRUE,
              val |-> IF signed /\ tok[1] = 45
                      THEN -DigitsValue(tok, first, 0)
                      ELSE DigitsValue(tok, first, 0)]
        ELSE [ok |-> FALSE, val |-> 0]

\* What load_pbm_mask hands back: None, a mask tuple, or (were an exception to
\* escape) a raise.
NoMask == [status |-> "none", width |-> 0, height |-> 0, row_bytes |-> 0, payload |-> <<>>]

RaisedMask == [status |-> "raise", width |-> 0, height |-> 0, row_bytes |-> 0, payload |-> <<>>]

\* ParseSizes without its `except ValueError': the exception escapes.
ParseSizesUncaught(tokens) ==
    LET w == PyInt(tokens[1])
        h == PyInt(tokens[2])
    IN  IF w.ok /\ h.ok
        THEN [status |-> "ok", width |-> w.val, height |-> h.val]
        ELSE [status |-> "raise", width |-> 0, height |-> 0]

\* lines 312-316: try: int(..), int(..) except ValueError: return None
ParseSizes(tokens) ==
    LET w == PyInt(tokens[1])
        h == PyInt(tokens[2])
    IN  IF w.ok /\ h.ok
        THEN [status |-> "ok", width |-> w.val, height |-> h.val]
        ELSE [status |-> "none", width |-> 0, height |-> 0]

\* lines 318-319: the whitespace skipped between the header and the payload
SkipHeaderSeparator(data, idx) == SkipWhitespace(data, idx)

\* ReadPayload without the length test of line 324: a short payload is returned.
ReadPayloadUnchecked(data, idx, width, height) ==
    LET row_bytes == (width + 7) \div 8
        expected  == row_bytes * height
        payload   == PySlice(data, idx, idx + expected)
    IN  [status |-> "mask", width |-> width, height |-> height,
         row_bytes |-> row_bytes, payload |-> payload]

\* lines 321-327
ReadPayload(data, idx, width, height) ==
    LET row_bytes == (width + 7) \div 8
        expected  == row_bytes * height
        payload   == PySlice(data, idx, idx + expected)
    IN  IF Len(payload) # expected
        THEN NoMask
        ELSE [status |-> "mask", width |-> width, height |-> height,
              row_bytes |-> row_bytes, payload |-> payload]

\* lines 312-327, given the outcome sz of parsing the two size tokens
LoadPbmSized(data, idx, sz) ==
    IF sz.status = "raise" THEN RaisedMask
    ELSE IF sz.status = "none" THEN NoMask
    ELSE ReadPayload(data, SkipHeaderSeparator(data, idx), sz.width, sz.height)

\* lines 309-327, given the outcome hdr of the token loop
LoadPbmHeader(data, hdr) ==
    IF Len(hdr.tokens) # 2 THEN NoMask
    ELSE LoadPbmSized(data, hdr.idx, ParseSizes(hdr.tokens))

\* load_pbm_mask, lines 281-327
LoadPbmMask(file) ==
    IF ~file.readable THEN NoMask
    ELSE IF ~StartsWithP4(file.data) THEN NoMask
    ELSE LoadPbmHeader(file.data, ReadSizeTokens(file.data, 2, <<>>))

(***************************************************************************)
(* mask_bit, art.6.py 330-335.                                             *)
(***************************************************************************)
\* mask_bit reading each byte least-significant bit first
MaskBitLsbFirst(mask, mx, my) ==
    IF mx < 0 \/ my < 0 \/ mx >= mask.width \/ my >= mask.height
    THEN 0
    ELSE LET b == At(mask.payload, my * mask.row_bytes + (mx \div 8))
         IN  (b \div Pow2(mx % 8)) % 2

MaskBit(mask, mx, my) ==
    IF mx < 0 \/ my < 0 \/ mx >= mask.width \/ my >= mask.height
    THEN 0
    ELSE LET b == At(mask.payload, my * mask.row_bytes + (mx \div 8))
         IN  (b \div Pow2(7 - (mx % 8))) % 2

(***************************************************************************)
(* Mask geometry, art.6.py 338-419.  A point of the mask's normalised      *)
(* space is the pair of rationals u = un / UvDen, v = vn / UvDen.          *)
(***************************************************************************)
UvDen == 2

\* round(num / den) for den > 0, as Python rounds: to nearest, ties to even
RoundHalfEven(num, den) ==
    LET q == num \div den
        r == num - q * den
    IN  IF 2 * r < den THEN q
        ELSE IF 2 * r > den THEN q + 1
        ELSE IF q % 2 = 0 THEN q ELSE q + 1

\* lines 344-351: one coordinate clamped into the mask
ClampToMask(m, size) ==
    IF m < 0 THEN 0
    ELSE IF m >= size THEN size - 1
    ELSE m

\* uv_to_mask_xy, lines 338-352: fx = (u + 1.0) * 0.5 * (width - 1)
UvToMaskXy(un, vn, mask) ==
    LET mx == RoundHalfEven((un + UvDen) * (mask.width - 1), 2 * UvDen)
        my == RoundHalfEven((vn + UvDen) * (mask.height - 1), 2 * UvDen)
    IN  <<ClampToMask(mx, mask.width), ClampToMask(my, mask.height)>>

\* u < -1.0 or u > 1.0 or v < -1.0 or v > 1.0
OutsideUnitSquare(un, vn) == un < -UvDen \/ un > UvDen \/ vn < -UvDen \/ vn > UvDen

\* line 362 with the radius 1 chosen from scale 14.0 on
InMaskProbeNarrow(scale) == IF scale >= 14 THEN 1 ELSE 3

\* line 362: probe = 1 if scale >= 32.0 else (2 if scale >= 18.0 else 3)
InMaskProbe(scale) == IF scale >= 32 THEN 1 ELSE (IF scale >= 18 THEN 2 ELSE 3)

\* line 412: probe = 1 if scale >= 24.0 else (2 if scale >= 14.0 else 3)
ThreadProbe(scale) == IF scale >= 24 THEN 1 ELSE (IF scale >= 14 THEN 2 ELSE 3)

\* is_point_in_mask, lines 355-367
IsPointInMask(un, vn, scale, mask) ==
    IF mask.status # "mask" THEN FALSE
    ELSE IF OutsideUnitSquare(un, vn) THEN FALSE
    ELSE LET xy    == UvToMaskXy(un, vn, mask)
             probe == InMaskProbe(scale)
         IN  \E oy \in (-probe)..probe, ox \in (-probe)..probe :
                 MaskBit(mask, xy[1] + ox, xy[2] + oy) = 1

\* is_mask_edge, lines 370-380
IsMaskEdge(mask, mx, my) ==
    IF MaskBit(mask, mx, my) = 0 THEN FALSE
    ELSE \E oy \in {-1, 0, 1}, ox \in {-1, 0, 1} :
             /\ ~(ox = 0 /\ oy = 0)
             /\ MaskBit(mask, mx + ox, my + oy) = 0

\* is_mask_corner without the test of lines 384-385
IsMaskCornerAnyPixel(mask, mx, my) ==
    LET orth == << MaskBit(mask, mx - 1, my), MaskBit(mask, mx + 1, my),
                   MaskBit(mask, mx, my - 1), MaskBit(mask, mx, my + 1) >>
        diag == << MaskBit(mask, mx - 1, my - 1), MaskBit(mask, mx + 1, my - 1),
                   MaskBit(mask, mx - 1, my + 1), MaskBit(mask, mx + 1, my + 1) >>
        orth_empty == Cardinality({i \in 1..4 : orth[i] = 0})
        diag_empty == Cardinality({i \in 1..4 : diag[i] = 0})
    IN  orth_empty >= 2 \/ (orth_empty >= 1 /\ diag_empty >= 2)

\* is_mask_corner, lines 383-400
IsMaskCorner(mask, mx, my) ==
    IF MaskBit(mask, mx, my) = 0 THEN FALSE
    ELSE LET orth == << MaskBit(mask, mx - 1, my), MaskBit(mask, mx + 1, my),
                        MaskBit(mask, mx, my - 1), MaskBit(mask, mx, my + 1) >>
             diag == << MaskBit(mask, mx - 1, my - 1), MaskBit(mask, mx + 1, my - 1),
                        MaskBit(mask, mx - 1, my + 1), MaskBit(mask, mx + 1, my + 1) >>
             orth_empty == Cardinality({i \in 1..4 : orth[i] = 0})
             diag_empty == Cardinality({i \in 1..4 : diag[i] = 0})
         IN  orth_empty >= 2 \/ (orth_empty >= 1 /\ diag_empty >= 2)

\* is_point_on_mask_thread without the range test of lines 406-407
IsPointOnMaskThreadClamped(un, vn, scale, mask) ==
    IF mask.status # "mask" THEN FALSE
    ELSE LET xy    == UvToMaskXy(un, vn, mask)
             probe == ThreadProbe(scale)
         IN  \E oy \in (-probe)..probe, ox \in (-probe)..probe :
                 \/ IsMaskEdge(mask, xy[1] + ox, xy[2] + oy)
                 \/ IsMaskCorner(mask, xy[1] + ox, xy[2] + oy)

\* is_point_on_mask_thread, lines 403-419
IsPointOnMaskThread(un, vn, scale, mask) ==
    IF mask.status # "mask" THEN FALSE
    ELSE IF OutsideUnitSquare(un, vn) THEN FALSE
    ELSE LET xy    == UvToMaskXy(un, vn, mask)
             probe == ThreadProbe(scale)
         IN  \E oy \in (-probe)..probe, ox \in (-probe)..probe :
                 \/ IsMaskEdge(mask, xy[1] + ox, xy[2] + oy)
                 \/ IsMaskCorner(mask, xy[1] + ox, xy[2] + oy)

(***************************************************************************)
(* The raster layout of section 6 (the writer's side of the round trip):   *)
(* magic P4, whitespace-separated decimal width and height, `#' comment    *)
(* lines at token boundaries, ONE whitespace byte, then ceil(width/8) *    *)
(* height payload bytes, row-major, each row packed MSB-first.             *)
(***************************************************************************)
MaxPbmBits == 8

RECURSIVE DecimalDigits(_)
DecimalDigits(n) ==
    IF n < 10 THEN <<48 + n>> ELSE Append(DecimalDigits(n \div 10), 48 + (n % 10))

DecimalToken(n) == IF n < 0 THEN <<45>> \o DecimalDigits(-n) ELSE DecimalDigits(n)

\* The byte of row y holding pixels 8k .. 8k+7: pixel 8k is bit 7.  The bits
\* past the row's last pixel are padding, written as `pad'.
RECURSIVE PackByte(_, _, _, _, _)
PackByte(pattern, pad, y, k, j) ==
    IF j > 7 THEN 0
    ELSE (IF (IF 8 * k + j < pattern.width THEN pattern.bit[<<8 * k + j, y>>] ELSE pad) = 1
          THEN Pow2(7 - j) ELSE 0) + PackByte(pattern, pad, y, k, j + 1)

PaddedPayload(pattern, pad) ==
    LET rb == (pattern.width + 7) \div 8
    IN  [i \in 1..(rb * pattern.height) |->
            PackByte(pattern, pad, (i - 1) \div rb, (i - 1) % rb, 0)]

PackedPayload(pattern) == PaddedPayload(pattern, 0)

\* Every bit pattern of at most maxbits pixels.
Patterns(maxbits) ==
    UNION { { [width |-> w, height |-> h, bit |-> f] :
                f \in [ ((0..(w - 1)) \X (0..(h - 1))) -> {0, 1} ] } :
            <<w, h>> \in { d \in (0..maxbits) \X (0..maxbits) : d[1] * d[2] <= maxbits } }

PbmPatterns == Patterns(MaxPbmBits)

\* The n x n pattern whose only foreground pixel is (px, py)
SinglePixelPattern(n, px, py) ==
    [width |-> n, height |-> n,
     bit |-> [c \in (0..(n - 1)) \X (0..(n - 1)) |-> IF c = <<px, py>> THEN 1 ELSE 0]]

\* The ways the file is written.  The first six follow the layout; the others
\* each break it in one way.
PbmGoodShapes == {"plain", "comment", "tab", "cr", "space", "trailing"}

PbmBrokenShapes == {"p5", "short_magic", "one_token", "no_token", "bad_token",
                    "truncated", "unreadable"}

PbmOddShapes == {"negative"}

PbmShapes == PbmGoodShapes \cup PbmBrokenShapes \cup PbmOddShapes

DropLast(s) == IF Len(s) = 0 THEN s ELSE SubSeq(s, 1, Len(s) - 1)

PbmFileOf(pattern, shape) ==
    LET w   == DecimalToken(pattern.width)
        h   == DecimalToken(pattern.height)
        pay == PackedPayload(pattern)
        lf  == <<10>>
        sp  == <<32>>
        d   == CASE shape = "plain"       -> <<80, 52>> \o lf \o w \o sp \o h \o lf \o pay
                 [] shape = "comment"     -> <<80, 52>> \o lf \o <<35, 99, 10>> \o w \o lf
                                                 \o <<35, 32, 100, 13>> \o h \o lf \o pay
                 [] shape = "tab"         -> <<80, 52>> \o sp \o w \o sp \o h \o <<9>> \o pay
                 [] shape = "cr"          -> <<80, 52>> \o lf \o w \o sp \o h \o <<13>> \o pay
                 [] shape = "space"       -> <<80, 52>> \o lf \o w \o sp \o h \o sp \o pay
                 [] shape = "trailing"    -> <<80, 52>> \o lf \o w \o sp \o h \o lf \o pay \o <<255>>
                 [] shape = "p5"          -> <<80, 53>> \o lf \o w \o sp \o h \o lf \o pay
                 [] shape = "short_magic" -> <<80>>
                 [] shape = "one_token"   -> <<80, 52>> \o lf \o w \o lf
                 [] shape = "no_token"    -> <<80, 52>> \o lf \o <<35, 99>>
                 [] shape = "bad_token"   -> <<80, 52>> \o lf \o w \o sp \o <<120>> \o h \o lf \o pay
                 [] shape = "truncated"   -> <<80, 52>> \o lf \o w \o sp \o h \o lf \o DropLast(pay)
                 [] shape = "unreadable"  -> <<80, 52>> \o lf \o w \o sp \o h \o lf \o pay
                 [] shape = "negative"    -> <<80, 52>> \o lf \o DecimalToken(-pattern.width) \o sp
                                                 \o DecimalToken(-pattern.height) \o lf \o pay
    IN  [readable |-> shape # "unreadable", data |-> d]

PendingMask == [status |-> "pending", width |-> 0, height |-> 0, row_bytes |-> 0, payload |-> <<>>]

(***************************************************************************)
(* The sigil registry, art.6.py 30-56 and 422-542, and the weighted draw,  *)
(* lines 259-269.  Weights are in units of 1/1000.                         *)
(***************************************************************************)
MaxSigilId == 2

MaxIndexRecords == 2

SigilIds == 1..MaxSigilId

\* LILITH_GRAND_SEAL_RENDER_BONUS = 0.033 (line 33): w = 1.0 + bonus
GrandSealWeight == 1033

\* the weight of the fallback entry, line 500
FallbackWeight == 4200

\* max(0.01, w), line 529, and max(total, 0.01), line 533
WeightFloor == 10

\* 1.0: the default weight (line 522), the neutral weight (line 528) and the
\* weight of the constant table (lines 39 and 537)
UnitWeight == 1000

\* SIGIL_MASKS_BY_ID = {} : .get(id) is None for every id
NoMasks == [id \in SigilIds |-> NoMask]

\* The globals as the module body leaves them before line 542 (lines 30-56)
InitialGlobals ==
    [VERIFIED_SIGIL_REGISTRY    |-> <<>>,
     SIGIL_MASKS_BY_ID          |-> NoMasks,
     ACTIVE_VERIFIED_SIGIL_IDS  |-> <<1>>,
     ACTIVE_SIGIL_WEIGHT_TABLE  |-> << <<1, UnitWeight>> >>,
     ACTIVE_SIGIL_TOTAL_WEIGHT  |-> UnitWeight,
     MAX_PROCEDURAL_SIGIL_ID    |-> 1,
     LILITH_SIGIL_ID            |-> 1,
     LILITH_GRAND_SEAL_ID       |-> 1]

\* _resolve_registry_pbm_path and the file behind it: a record's raster is
\* "missing" (no candidate path exists), or a file that load_pbm_mask reads.
\* The k-th record's good raster is the square raster of side k + 1 with one
\* foreground pixel, (0, k).
RegistryRasterFile(k, pbm) ==
    CASE pbm = "good"      -> PbmFileOf(SinglePixelPattern(k + 1, 0, k), "plain")
      [] pbm = "malformed" -> PbmFileOf(SinglePixelPattern(k + 1, 0, k), "p5")
      [] OTHER             -> [readable |-> FALSE, data |-> <<>>]

\* lines 465-467
IsLilith(low) == low.lilith

IsGrand(low) == IsLilith(low) /\ low.grand

IsSigil(low) == IsLilith(low) /\ low.sigil /\ ~IsGrand(low)

\* StoreRecord with a raster that does not decode raising instead of `continue'
StoreRecordStrict(st, sid, entry, mask) ==
    IF mask.status # "mask" THEN [st EXCEPT !.raised = TRUE]
    ELSE [registry |-> Append(st.registry,
                              [id |-> sid, weight |-> entry.weight,
                               is_lilith_grand |-> IsGrand(entry.low),
                               is_lilith_sigil |-> IsSigil(entry.low)]),
          masks    |-> [st.masks EXCEPT ![sid] = mask],
          grand    |-> IF IsGrand(entry.low) THEN <<sid>> ELSE st.grand,
          sigil    |-> IF IsSigil(entry.low) THEN <<sid>> ELSE st.sigil,
          raised   |-> FALSE]

\* lines 473-485: what the loop body does with the mask load_pbm_mask returned
StoreRecord(st, sid, entry, mask) ==
    IF mask.status # "mask" THEN st                        \* if mask is None: continue
    ELSE [registry |-> Append(st.registry,
                              [id |-> sid, weight |-> entry.weight,
                               is_lilith_grand |-> IsGrand(entry.low),
                               is_lilith_sigil |-> IsSigil(entry.low)]),
          masks    |-> [st.masks EXCEPT ![sid] = mask],
          grand    |-> IF IsGrand(entry.low) THEN <<sid>> ELSE st.grand,
          sigil    |-> IF IsSigil(entry.low) THEN <<sid>> ELSE st.sigil,
          raised   |-> FALSE]

\* One pass of the loop body, lines 456-485, over record k of the index.
\* st = [registry, masks, grand, sigil, raised]; grand and sigil are the detected
\* ids (<<>> is None).
LoadRecord(st, k, entry) ==
    IF ~entry.id.ok
    THEN [st EXCEPT !.raised = TRUE]                       \* int(entry.get("id")) raises
    ELSE IF entry.pbm = "noname" THEN st                   \* if not pbm_name: continue
    ELSE IF entry.pbm = "missing" THEN st                  \* if pbm_path is None: continue
    ELSE StoreRecord(st, entry.id.val, entry, LoadPbmMask(RegistryRasterFile(k, entry.pbm)))

RECURSIVE LoadRecords(_, _, _)
LoadRecords(st, k, records) ==
    IF st.raised \/ k > Len(records) THEN st
    ELSE LoadRecords(LoadRecord(st, k, records[k]), k + 1, records)

\* lines 445-448
EmptyLoad ==
    [registry |-> <<>>, masks |-> NoMasks, grand |-> <<>>, sigil |-> <<>>, raised |-> FALSE]

\* lines 486-488: except Exception: registry = []; masks = {}
CatchLoad(st) == IF st.raised THEN [st EXCEPT !.registry = <<>>, !.masks = NoMasks] ELSE st

\* lines 445-488: the index is read inside try/except Exception
LoadIndex(index) ==
    IF index.status = "absent" THEN EmptyLoad
    ELSE IF index.status = "malformed" THEN CatchLoad([EmptyLoad EXCEPT !.raised = TRUE])
    ELSE CatchLoad(LoadRecords(EmptyLoad, 1, index.records))

\* FallbackEntry with "weight": 1.0
FallbackEntryUnitWeight(st, lilith_sigil_id, mask) ==
    IF mask.status # "mask" THEN st
    ELSE [st EXCEPT !.registry = << [id |-> lilith_sigil_id,
                                     weight |-> [kind |-> "num", val |-> UnitWeight],
                                     is_lilith_grand |-> FALSE,
                                     is_lilith_sigil |-> FALSE] >>,
                    !.masks = [NoMasks EXCEPT ![lilith_sigil_id] = mask]]

\* lines 493-503: the fallback entry carries "weight": 4.2 and no is_lilith_* keys
FallbackEntry(st, lilith_sigil_id, mask) ==
    IF mask.status # "mask" THEN st
    ELSE [st EXCEPT !.registry = << [id |-> lilith_sigil_id,
                                     weight |-> [kind |-> "num", val |-> FallbackWeight],
                                     is_lilith_grand |-> FALSE,
                                     is_lilith_sigil |-> FALSE] >>,
                    !.masks = [NoMasks EXCEPT ![lilith_sigil_id] = mask]]

\* lines 490-503
LoadFallback(st, lilith_sigil_id, default_file) ==
    IF Len(st.registry) # 0 THEN st
    ELSE FallbackEntry(st, lilith_sigil_id, LoadPbmMask(default_file))

\* registry.sort(key=lambda e: e["id"]): a stable sort by id
RECURSIVE InsertById(_, _)
InsertById(sorted, e) ==
    IF Len(sorted) = 0 THEN <<e>>
    ELSE IF sorted[Len(sorted)].id <= e.id THEN Append(sorted, e)
    ELSE Append(InsertById(SubSeq(sorted, 1, Len(sorted) - 1), e), sorted[Len(sorted)])

RECURSIVE SortById(_)
SortById(registry) ==
    IF Len(registry) = 0 THEN <<>>
    ELSE InsertById(SortById(SubSeq(registry, 1, Len(registry) - 1)), registry[Len(registry)])

\* lines 522-529: the weight of one registry entry; float() of a weight that is
\* no number raises
EntryWeight(e) ==
    IF e.weight.kind = "bad" THEN [ok |-> FALSE, w |-> 0]
    ELSE LET raw == IF e.weight.kind = "absent" THEN UnitWeight ELSE e.weight.val
             w   == IF e.is_lilith_grand THEN GrandSealWeight
                    ELSE IF e.is_lilith_sigil THEN UnitWeight
                    ELSE raw
         IN  [ok |-> TRUE, w |-> Max(WeightFloor, w)]

\* lines 519-531: the table and the total, or the exception of a bad weight
RECURSIVE WeightTable(_, _, _, _)
WeightTable(registry, k, weights, total) ==
    IF k > Len(registry) THEN [ok |-> TRUE, weights |-> weights, total |-> total]
    ELSE LET ew == EntryWeight(registry[k])
         IN  IF ~ew.ok THEN [ok |-> FALSE, weights |-> weights, total |-> total]
             ELSE WeightTable(registry, k + 1,
                              Append(weights, <<registry[k].id, ew.w>>), total + ew.w)

\* lines 505-515: the registry is sorted, the detected ids and then the registry
\* and the mask map are assigned
AssignRegistry(g, st) ==
    [g EXCEPT !.LILITH_GRAND_SEAL_ID = IF st.grand # <<>> THEN st.grand[1] ELSE @,
              !.LILITH_SIGIL_ID = IF st.sigil # <<>> THEN st.sigil[1]
                                  ELSE IF st.grand # <<>> THEN st.grand[1]
                                  ELSE @,
              !.VERIFIED_SIGIL_REGISTRY = SortById(st.registry),
              !.SIGIL_MASKS_BY_ID = st.masks]

\* lines 518-534, given the outcome wt of the weight loop
AssignWeights(g1, wt) ==
    IF ~wt.ok                                  \* line 522 raises after line 518 ran
    THEN [raised |-> TRUE,
          globals |-> [g1 EXCEPT
              !.ACTIVE_VERIFIED_SIGIL_IDS =
                  [i \in 1..Len(g1.VERIFIED_SIGIL_REGISTRY) |-> g1.VERIFIED_SIGIL_REGISTRY[i].id]]]
    ELSE [raised |-> FALSE,
          globals |-> [g1 EXCEPT
              !.ACTIVE_VERIFIED_SIGIL_IDS =
                  [i \in 1..Len(g1.VERIFIED_SIGIL_REGISTRY) |-> g1.VERIFIED_SIGIL_REGISTRY[i].id],
              !.ACTIVE_SIGIL_WEIGHT_TABLE = wt.weights,
              !.ACTIVE_SIGIL_TOTAL_WEIGHT = Max(wt.total, WeightFloor),
              !.MAX_PROCEDURAL_SIGIL_ID =
                  g1.VERIFIED_SIGIL_REGISTRY[Len(g1.VERIFIED_SIGIL_REGISTRY)].id]]

\* lines 517-539, on the globals g1 as lines 505-515 left them
AssignActive(g1) ==
    IF Len(g1.VERIFIED_SIGIL_REGISTRY) # 0
    THEN AssignWeights(g1, WeightTable(g1.VERIFIED_SIGIL_REGISTRY, 1, <<>>, 0))
    ELSE [raised |-> FALSE,
          globals |-> [g1 EXCEPT
              !.ACTIVE_VERIFIED_SIGIL_IDS = <<g1.LILITH_SIGIL_ID>>,
              !.ACTIVE_SIGIL_WEIGHT_TABLE = << <<g1.LILITH_SIGIL_ID, UnitWeight>> >>,
              !.ACTIVE_SIGIL_TOTAL_WEIGHT = UnitWeight,
              !.MAX_PROCEDURAL_SIGIL_ID = g1.LILITH_SIGIL_ID]]

\* refresh_verified_sigil_registry, lines 435-539: the globals after the call
\* and whether the call raised.
RefreshVerifiedSigilRegistry(g, index, default_file) ==
    AssignActive(AssignRegistry(g, LoadFallback(LoadIndex(index), g.LILITH_SIGIL_ID, default_file)))

\* PickLoop with `if roll < 0.0' for the test of line 267
RECURSIVE PickLoopStrict(_, _, _)
PickLoopStrict(table, k, roll) ==
    IF k > Len(table) THEN table[Len(table)][1]
    ELSE IF roll - table[k][2] < 0 THEN table[k][1]
    ELSE PickLoopStrict(table, k + 1, roll - table[k][2])

\* pick_weighted_sigil_id, lines 259-269, for roll = trng.random() * total
RECURSIVE PickLoop(_, _, _)
PickLoop(table, k, roll) ==
    IF k > Len(table) THEN table[Len(table)][1]
    ELSE IF roll - table[k][2] <= 0 THEN table[k][1]
    ELSE PickLoop(table, k + 1, roll - table[k][2])

PickWeightedSigilId(g, roll) ==
    IF Len(g.ACTIVE_SIGIL_WEIGHT_TABLE) = 0 THEN g.LILITH_SIGIL_ID
    ELSE PickLoop(g.ACTIVE_SIGIL_WEIGHT_TABLE, 1, roll)

(***************************************************************************)
(* inject_sigil_excitation, art.6.py 224-257.  The excitation grid is a    *)
(* function whose domain is the set of cells that have an entry; the       *)
(* intensities are in units of 1/10000.  The draws of trng are inputs:     *)
(* draws.halo[i] is 0 when trng.random() >= 0.18 for neighbour i and       *)
(* otherwise the percentage trng.uniform(0.04, 0.18) drew; draws.spike is  *)
(* [hit, dir, pct, steps, falloff].                                        *)
(***************************************************************************)
EmptyGrid == [c \in {} |-> 0]

\* excitation_grid.get((x, y), 0.0)
GridGet(grid, c) == IF c \in DOMAIN grid THEN grid[c] ELSE 0

\* excitation_grid[(x, y)] = v
GridPut(grid, c, v) == [k \in DOMAIN grid \cup {c} |-> IF k = c THEN v ELSE grid[k]]

\* RaiseCell without the comparison with the existing value
RaiseCellAlways(grid, c, v) == GridPut(grid, c, v)

\* lines 229-230, 242-243 and 255-256: a write happens only above the existing value
RaiseCell(grid, c, v) == IF v > GridGet(grid, c) THEN GridPut(grid, c, v) ELSE grid

\* line 235
Neighbors == << <<-1, 0>>, <<1, 0>>, <<0, -1>>, <<0, 1>>,
                <<-1, -1>>, <<1, 1>>, <<-1, 1>>, <<1, -1>> >>

\* lines 225, 239 and 252
InBounds(x, y, width, height) == x >= 0 /\ y >= 0 /\ x < width /\ y < height

\* base_intensity * trng.uniform(...), the draw given in percent
Scaled(v, pct) == (v * pct) \div 100

RECURSIVE HaloLoop(_, _, _, _, _, _, _, _)
\* lines 236-243
HaloLoop(grid, x, y, base_intensity, halo, i, width, height) ==
    IF i > Len(Neighbors) THEN grid
    ELSE HaloLoop(IF halo[i] # 0
                     /\ InBounds(x + Neighbors[i][1], y + Neighbors[i][2], width, height)
                  THEN RaiseCell(grid, <<x + Neighbors[i][1], y + Neighbors[i][2]>>,
                                 Scaled(base_intensity, halo[i]))
                  ELSE grid,
                  x, y, base_intensity, halo, i + 1, width, height)

RECURSIVE SpikeLoop(_, _, _, _, _, _, _, _, _, _)
\* lines 251-257: k counts the passes of the for loop
SpikeLoop(grid, sx, sy, dx, dy, spike, k, draw, width, height) ==
    IF k > draw.steps THEN grid
    ELSE IF ~InBounds(sx + dx, sy + dy, width, height) THEN grid                \* break
    ELSE SpikeLoop(RaiseCell(grid, <<sx + dx, sy + dy>>, spike),
                   sx + dx, sy + dy, dx, dy, Scaled(spike, draw.falloff[k]),
                   k + 1, draw, width, height)

\* lines 246-257
SpikeStrand(grid, x, y, base_intensity, draw, width, height) ==
    IF ~draw.hit THEN grid
    ELSE SpikeLoop(grid, x, y, Neighbors[draw.dir][1], Neighbors[draw.dir][2],
                   Scaled(base_intensity, draw.pct), 1, draw, width, height)

\* InjectSigilExcitation with line 231 moved under the `if' of line 229: the
\* target joins the spark set only when its intensity was raised
InjectSigilExcitationRaisedOnly(grid, sparks, x, y, base_intensity, draws, width, height, with_halo) ==
    IF ~InBounds(x, y, width, height)
    THEN [grid |-> grid, sparks |-> sparks]
    ELSE [grid |-> IF with_halo
                   THEN SpikeStrand(HaloLoop(RaiseCell(grid, <<x, y>>, base_intensity),
                                             x, y, base_intensity, draws.halo, 1, width, height),
                                    x, y, base_intensity, draws.spike, width, height)
                   ELSE RaiseCell(grid, <<x, y>>, base_intensity),
          sparks |-> IF base_intensity > GridGet(grid, <<x, y>>)
                     THEN sparks \cup {<<x, y>>} ELSE sparks]

\* InjectSigilExcitation without the `if not with_halo: return' of lines 233-234
InjectSigilExcitationHaloAlways(grid, sparks, x, y, base_intensity, draws, width, height, with_halo) ==
    IF ~InBounds(x, y, width, height)
    THEN [grid |-> grid, sparks |-> sparks]
    ELSE [grid |-> SpikeStrand(HaloLoop(RaiseCell(grid, <<x, y>>, base_intensity),
                                        x, y, base_intensity, draws.halo, 1, width, height),
                               x, y, base_intensity, draws.spike, width, height),
          sparks |-> sparks \cup {<<x, y>>}]

\* inject_sigil_excitation, lines 224-257: the grid and the spark set after the call
InjectSigilExcitation(grid, sparks, x, y, base_intensity, draws, width, height, with_halo) ==
    IF ~InBounds(x, y, width, height)
    THEN [grid |-> grid, sparks |-> sparks]
    ELSE IF ~with_halo
    THEN [grid |-> RaiseCell(grid, <<x, y>>, base_intensity), sparks |-> sparks \cup {<<x, y>>}]
    ELSE [grid |-> SpikeStrand(HaloLoop(RaiseCell(grid, <<x, y>>, base_intensity),
                                        x, y, base_intensity, draws.halo, 1, width, height),
                               x, y, base_intensity, draws.spike, width, height),
          sparks |-> sparks \cup {<<x, y>>}]

\* No draw is made (with_halo=False, or the call returned at line 226).
NoDraws ==
    [halo  |-> [i \in 1..8 |-> 0],
     spike |-> [hit |-> FALSE, dir |-> 1, pct |-> 0, steps |-> 1, falloff |-> <<0, 0, 0>>]]

RECURSIVE SpikeSteps(_, _, _, _, _, _, _, _)
\* lines 250-257: the passes of the spike loop that reach line 257
SpikeSteps(sx, sy, dx, dy, k, steps, width, height) ==
    IF k > steps \/ ~InBounds(sx + dx, sy + dy, width, height) THEN 0
    ELSE 1 + SpikeSteps(sx + dx, sy + dy, dx, dy, k + 1, steps, width, height)

\* the number of calls the function makes on trng: none before the returns of
\* lines 226 and 234; then random() per neighbour (238) and uniform() per hit
\* inside the viewport (241); random() at 246 and, on a hit, randint (247),
\* uniform (249), randint (250) and uniform per completed pass (257)
DrawsConsumed(x, y, draws, width, height, with_halo) ==
    IF ~InBounds(x, y, width, height) \/ ~with_halo THEN 0
    ELSE 8 + Cardinality({ i \in 1..8 :
                             /\ draws.halo[i] # 0
                             /\ InBounds(x + Neighbors[i][1], y + Neighbors[i][2], width, height) })
           + 1
           + IF draws.spike.hit
             THEN 3 + SpikeSteps(x, y, Neighbors[draws.spike.dir][1], Neighbors[draws.spike.dir][2],
                                 1, draws.spike.steps, width, height)
             ELSE 0

(***************************************************************************)
(* The frame loop of main, art.6.py 601-1014.  s is the record of the      *)
(* locals that live across the passes of the while loop; `in' is what the  *)
(* pass reads from its surroundings: the time since the last pass (dt, in  *)
(* 1/100 s), the viewport, and of the entropy pool the two statistics the  *)
(* schedulers take from it, avg_entropy (in 1/10000) and convergence_hits. *)
(* The draws of trng are inputs as well, trng.random() in 1/10000.  A      *)
(* sigil's centre and scale enter the loop only through is_point_in_sigil; *)
(* the answer of is_point_on_mask_thread at a cell is an input.  A sigil   *)
(* is the record [start_time, cx, cy, scale, type_id, life], cx and cy in  *)
(* cells, scale in 1/100 cell.                                             *)
(***************************************************************************)
\* gate_threshold = 2.0, line 604
GateThreshold == 20000

\* pulse_duration = 3.0, line 606, in 1/100 s
PulseDuration == 300

\* expected_hits = focus_sample_count * p_pair = 160 * 3 / 256, lines 653 and 666-667
ExpectedHits == 18750

\* math.sqrt(variance) = sqrt(160 * (3/256) * (253/256)) = 1.36126, lines 668-669
SqrtVariance == 13613

\* the locals of main that live across the passes of the loop
Locals ==
    [t |-> t, entropy_buildup |-> entropy_buildup, intent_dilation |-> intent_dilation,
     active_pulses |-> active_pulses, coherence_walker |-> coherence_walker,
     target_coherence |-> target_coherence, active_sigils |-> active_sigils,
     excitation_grid |-> excitation_grid, active_sparks |-> active_sparks,
     raised |-> FALSE,
     \* what the propagation step of the pass started from and made
     sparks_in |-> {}, grid_in |-> EmptyGrid, new_sparks |-> {}, spread_injections |-> 0]

\* line 665
IntentGateOpen(convergence_hits) == convergence_hits >= 4

\* floor(a * m / b) for b > 0, computed without forming a * m
ScaledQuotient(a, m, b) == (a \div b) * m + ((a % b) * m) \div b

\* lines 674-675: z_score / 4.0 = (convergence_hits - expected_hits) / sqrt(variance) / 4
QuarterZScore(convergence_hits) ==
    ScaledQuotient(convergence_hits * 10000 - ExpectedHits, 2500, SqrtVariance)

\* IntentTarget without the clamp of line 675
IntentTargetUnclamped(convergence_hits) == QuarterZScore(convergence_hits)

\* lines 671-675: max(0.0, min(1.5, z_score / 4.0))
IntentTarget(convergence_hits) ==
    Max(0, Min(15000, QuarterZScore(convergence_hits)))

\* line 671
RelaxDilation(dilation, convergence_hits) ==
    dilation + ((IntentTarget(convergence_hits) - dilation) * 8) \div 100

\* BuildUp whose else branch leaves the buildup as it is
BuildUpHeld(buildup, avg_entropy) ==
    IF avg_entropy > 5100 THEN buildup + (avg_entropy - 5000) * 15 ELSE buildup

\* lines 674-677
BuildUp(buildup, avg_entropy) ==
    IF avg_entropy > 5100 THEN buildup + (avg_entropy - 5000) * 15 ELSE Max(0, buildup - 500)

\* line 680
EffectiveGateThreshold(dilation) == Max(14000, GateThreshold - (dilation * 25) \div 100)

\* lines 618 and 649-677
Schedule(s, in) ==
    [s EXCEPT !.t = @ + in.dt,
              !.intent_dilation = RelaxDilation(@, in.convergence_hits),
              !.entropy_buildup = BuildUp(@, in.avg_entropy)]

\* PulseFires against gate_threshold itself, without line 685
PulseFiresFixedGate(s) == s.entropy_buildup > GateThreshold

\* line 686
PulseFires(s) == s.entropy_buildup > EffectiveGateThreshold(s.intent_dilation)

\* the ends of trng.randint(-n//3, n//3), lines 686-687
PulseOffsets(n) == { (-n) \div 3, n \div 3 }

\* lines 682-688
AppendPulse(s, in, dx, dy) ==
    [s EXCEPT !.entropy_buildup = 0,
              !.active_pulses = Append(@, [start_time |-> s.t,
                                           cx |-> in.width \div 2 + dx,
                                           cy |-> in.height \div 2 + dy])]

\* line 691
CleanupPulses(s) ==
    [s EXCEPT !.active_pulses = SelectSeq(@, LAMBDA p : s.t - p.start_time <= PulseDuration)]

\* lines 694-698: reroll = [roll, target], target the draw of trng.uniform(0.15, 1.2)
Coherence(s, reroll) ==
    [s EXCEPT !.target_coherence = IF reroll.roll < 200 THEN reroll.target ELSE @,
              !.coherence_walker =
                  @ + (((IF reroll.roll < 200 THEN reroll.target ELSE s.target_coherence) - @) * 2)
                          \div 100]

\* line 699
GlobalCoherence(s) == Max(1500, Min(10000, s.coherence_walker))

\* line 802
LocalEmergence(s, in) ==
    Min(10000, GlobalCoherence(s)
               + IF IntentGateOpen(in.convergence_hits) THEN (s.intent_dilation * 5) \div 100 ELSE 0)

\* line 703
BaseSpawn(in, roll) == in.avg_entropy > 5200 /\ roll < 1800

\* lines 704-708
BoostSpawn(s, in, roll) ==
    /\ IntentGateOpen(in.convergence_hits)
    /\ in.avg_entropy > 5050 - Min(100, (s.intent_dilation * 6) \div 1000)
    /\ roll < Min(1200, 300 + (s.intent_dilation * 4) \div 100)

\* line 727: life is the draw of trng.uniform(8.0, 20.0), in 1/100 s
SigilLife(s, in, life) ==
    (life * (10000 + IF IntentGateOpen(in.convergence_hits)
                     THEN (s.intent_dilation * 30) \div 100 ELSE 0)) \div 10000

\* lines 721 and 727: scale is the draw of trng.uniform(height * 0.3, height * 1.2),
\* in 1/100 cell
SigilScale(s, in, scale) ==
    (scale * (10000 + IF IntentGateOpen(in.convergence_hits)
                      THEN (s.intent_dilation * 20) \div 100 ELSE 0)) \div 10000

\* lines 714-730: draw = [base_roll, boost_roll, cx, cy, scale, pick_roll, life]
Spawn(s, in, g, draw) ==
    IF BaseSpawn(in, draw.base_roll) \/ BoostSpawn(s, in, draw.boost_roll)
    THEN [s EXCEPT !.active_sigils =
              Append(@, [start_time |-> s.t,
                         cx         |-> draw.cx,
                         cy         |-> draw.cy,
                         scale      |-> SigilScale(s, in, draw.scale),
                         type_id    |-> PickWeightedSigilId(g, draw.pick_roll),
                         life       |-> SigilLife(s, in, draw.life)])]
    ELSE s

\* CleanupSigils with `<' for the `<=' of line 733
CleanupSigilsEarly(s) ==
    [s EXCEPT !.active_sigils = SelectSeq(@, LAMBDA sig : s.t - sig.start_time < sig.life)]

\* line 733
CleanupSigils(s) ==
    [s EXCEPT !.active_sigils = SelectSeq(@, LAMBDA sig : s.t - sig.start_time <= sig.life)]

\* line 734
IgniteChance(s, in) ==
    Min(8000, 4000 + IF IntentGateOpen(in.convergence_hits)
                     THEN (s.intent_dilation * 12) \div 100 ELSE 0)

\* IsPointInSigil without the `if mask is None: return False' of lines 553-555
IsPointInSigilUnmasked(g, type_id, on_thread) == on_thread

\* is_point_in_sigil, lines 544-556: without a loaded mask the answer is False,
\* with one it is is_point_on_mask_thread's, here on_thread
IsPointInSigil(g, type_id, on_thread) ==
    IF type_id \notin DOMAIN g.SIGIL_MASKS_BY_ID THEN FALSE
    ELSE IF g.SIGIL_MASKS_BY_ID[type_id].status # "mask" THEN FALSE
    ELSE on_thread

\* the grid and the spark set of s replaced by those an injection returned
WithInjection(s, r) == [s EXCEPT !.excitation_grid = r.grid, !.active_sparks = r.sparks]

\* lines 736-747, one sigil: draw = [roll, rx, ry, on_thread]
IgniteOne(s, in, g, sig, draw) ==
    IF /\ draw.roll < IgniteChance(s, in)
       /\ InBounds(draw.rx, draw.ry, in.width, in.height)
       /\ IsPointInSigil(g, sig.type_id, draw.on_thread)
    THEN WithInjection(s, InjectSigilExcitation(s.excitation_grid, s.active_sparks,
                                                draw.rx, draw.ry, 10000, NoDraws,
                                                in.width, in.height, FALSE))
    ELSE s

RECURSIVE IgniteLoop(_, _, _, _, _)
\* lines 735-747
IgniteLoop(s, in, g, draws, i) ==
    IF i > Len(s.active_sigils) THEN s
    ELSE IgniteLoop(IgniteOne(s, in, g, s.active_sigils[i], draws[i]), in, g, draws, i + 1)

\* line 752 with 0.05 for every rate
ExciteDecaySlow(s, in) == 500

\* line 752
ExciteDecay(s, in) ==
    Max(800, 1200 - IF IntentGateOpen(in.convergence_hits)
                    THEN (s.intent_dilation * 15) \div 1000 ELSE 0)

\* DecayGrid without the deletion of the dead keys
DecayGridKeepDead(grid, decay) == [c \in DOMAIN grid |-> grid[c] - decay]

\* lines 753-758
DecayGrid(grid, decay) ==
    [c \in { k \in DOMAIN grid : grid[k] - decay > 0 } |-> grid[c] - decay]

\* lines 751-758
Decay(s, in) == [s EXCEPT !.excitation_grid = DecayGrid(@, ExciteDecay(s, in))]

\* line 762
SpreadChance(s, in) ==
    Min(7200, 5600 + IF IntentGateOpen(in.convergence_hits)
                     THEN (s.intent_dilation * 5) \div 100 ELSE 0)

\* lines 774-778, with the answer of the thread query given
IsPartOfSigil(s, g, on_thread) ==
    \E i \in 1..Len(s.active_sigils) : IsPointInSigil(g, s.active_sigils[i].type_id, on_thread)

\* SpreadEligible without the test of line 767
SpreadEligibleAlways(grid, c) == TRUE

\* line 767
SpreadEligible(grid, c) == c \notin DOMAIN grid \/ grid[c] < 2000

\* lines 763-767: the neighbours of the sparks that the loop goes on to test
SpreadCandidates(s, in) ==
    { c \in { <<sp[1] + Neighbors[i][1], sp[2] + Neighbors[i][2]>> :
                  sp \in s.active_sparks, i \in 1..Len(Neighbors) } :
        /\ InBounds(c[1], c[2], in.width, in.height)
        /\ SpreadEligible(s.excitation_grid, c) }

RECURSIVE InjectEach(_, _, _, _, _)
\* inject_sigil_excitation(..., with_halo=False) at each cell of a set
InjectEach(r, cells, base_intensity, width, height) ==
    IF cells = {} THEN r
    ELSE InjectEach(InjectSigilExcitation(r.grid, r.sparks,
                                          (CHOOSE c \in cells : TRUE)[1],
                                          (CHOOSE c \in cells : TRUE)[2],
                                          base_intensity, NoDraws, width, height, FALSE),
                    cells \ { CHOOSE c \in cells : TRUE }, base_intensity, width, height)

\* the order in which `for sx, sy in active_sparks' is taken to meet the sparks
\* (the outcome of the step does not depend on it)
SparkBefore(c, d) == c[2] < d[2] \/ (c[2] = d[2] /\ c[1] < d[1])

RECURSIVE SparkOrder(_)
SparkOrder(sparks) ==
    IF sparks = {} THEN << >>
    ELSE << CHOOSE sp \in sparks : \A o \in sparks \ { sp } : SparkBefore(sp, o) >>
         \o SparkOrder(sparks \ { CHOOSE sp \in sparks :
                                     \A o \in sparks \ { sp } : SparkBefore(sp, o) })

\* lines 763-765: the cells (nx, ny) in the order the two loops produce them
SpreadVisits(order) ==
    [k \in 1..(Len(order) * Len(Neighbors)) |->
        << order[((k - 1) \div Len(Neighbors)) + 1][1]
               + Neighbors[((k - 1) % Len(Neighbors)) + 1][1],
           order[((k - 1) \div Len(Neighbors)) + 1][2]
               + Neighbors[((k - 1) % Len(Neighbors)) + 1][2] >>]

\* lines 766-785 for one (nx, ny): r = [grid, sparks, injections]
SpreadVisit(r, c, lit, width, height) ==
    IF InBounds(c[1], c[2], width, height) /\ SpreadEligible(r.grid, c) /\ c \in lit
    THEN [grid |-> InjectSigilExcitation(r.grid, r.sparks, c[1], c[2], 9400, NoDraws,
                                         width, height, FALSE).grid,
          sparks |-> InjectSigilExcitation(r.grid, r.sparks, c[1], c[2], 9400, NoDraws,
                                           width, height, FALSE).sparks,
          injections |-> r.injections + 1]
    ELSE r

RECURSIVE SpreadLoop(_, _, _, _, _, _)
\* lines 763-785
SpreadLoop(r, visits, k, lit, width, height) ==
    IF k > Len(visits) THEN r
    ELSE SpreadLoop(SpreadVisit(r, visits[k], lit, width, height), visits, k + 1, lit,
                    width, height)

\* AfterSpread with the new sparks merged into the old set
AfterSpreadMerged(s, r) ==
    [s EXCEPT !.excitation_grid = r.grid, !.active_sparks = s.active_sparks \cup r.sparks,
              !.sparks_in = s.active_sparks, !.grid_in = s.excitation_grid,
              !.new_sparks = s.active_sparks \cup r.sparks,
              !.spread_injections = r.injections]

\* line 786: active_sparks = new_sparks
AfterSpread(s, r) ==
    [s EXCEPT !.excitation_grid = r.grid, !.active_sparks = r.sparks,
              !.sparks_in = s.active_sparks, !.grid_in = s.excitation_grid,
              !.new_sparks = r.sparks, !.spread_injections = r.injections]

\* lines 760-786: lit is the set of cells that are on a sigil's thread and win
\* the draw against spread_chance whenever the loop tests them
Propagate(s, in, lit) ==
    AfterSpread(s, SpreadLoop([grid |-> s.excitation_grid, sparks |-> {}, injections |-> 0],
                              SpreadVisits(SparkOrder(s.active_sparks)), 1, lit,
                              in.width, in.height))

\* lines 789 and 793: range(height - 1), range(width - 1)
Rendered(c, in) == c[1] >= 0 /\ c[1] < in.width - 1 /\ c[2] >= 0 /\ c[2] < in.height - 1

\* lines 832-833: the cells that take the branch of line 836
ExcitedRendered(s, in) ==
    { c \in DOMAIN s.excitation_grid : Rendered(c, in) /\ s.excitation_grid[c] > 0 }

\* the order in which the render loops reach the cells
RenderedBefore(c, d) == c[2] < d[2] \/ (c[2] = d[2] /\ c[1] < d[1])

\* lines 946-954: the cells the render loops reach at which a seeding can take
\* place: pulse and local_emergence pass line 946 as computed or after the toroid
\* override of lines 874-877, and some sigil has a mask
SeedCandidates(s, in, g, cells) ==
    { c \in cells :
        /\ Rendered(c, in)
        /\ \A d \in ExcitedRendered(s, in) : RenderedBefore(c, d)
        /\ (LocalEmergence(s, in) > 3500 \/ Len(s.active_pulses) > 0)
        /\ IsPartOfSigil(s, g, TRUE) }

\* lines 789-960: max_entropy_len (line 836) is bound nowhere, so the first cell
\* with excite > 0 raises NameError; the seedings before it have been made
Render(s, in, seeds) ==
    [WithInjection(s, InjectEach([grid |-> s.excitation_grid, sparks |-> s.active_sparks],
                                 seeds, 10000, in.width, in.height))
       EXCEPT !.raised = ExcitedRendered(s, in) # {}]

\* The variables of the registry spec while another spec runs.
RegIdle ==
    /\ reg_index = [status |-> "absent", records |-> <<>>]
    /\ reg_default = [readable |-> FALSE, data |-> <<>>]
    /\ reg_pc = "import"
    /\ sigil_globals = InitialGlobals
    /\ pick_call = [made |-> FALSE, roll |-> 0, out |-> 0]

\* The variables of the geometry spec while another spec runs.
GeoIdle ==
    /\ geo_bits = [width |-> 0, height |-> 0, bit |-> <<>>]
    /\ geo_mask = NoMask
    /\ geo_query = [kind |-> "none", a |-> 0, b |-> 0, scale |-> 0]
    /\ geo_res = [bit |-> 0, edge |-> FALSE, corner |-> FALSE, xy |-> <<0, 0>>,
                  on_thread |-> FALSE, in_mask |-> FALSE]

(***************************************************************************)
(* The glyph catalog and get_text_glyph, art.6.py 89-216.  A code point is *)
(* a natural number; which code points unicodedata judges safe is the set  *)
(* safe.  The catalog is scaled down to three families over the code       *)
(* points 1..MaxCodepoint: one with two overlapping ranges, one with a     *)
(* single range, and "deity", which has no range and is extended by an     *)
(* explicit character.  A 32-bit word is a pair <<hi, lo>> of 16-bit       *)
(* halves.                                                                 *)
(***************************************************************************)
MaxCodepoint == 5

\* "*", the placeholder of line 180 and of line 206
Placeholder == 0

\* blocks / ranges, lines 113-167, scaled down
BLOCK_KEYS == << "latin", "greek", "deity" >>

FamilyRanges(name) ==
    CASE name = "latin" -> << <<1, 2>>, <<2, MaxCodepoint - 2>> >>
      [] name = "greek" -> << <<MaxCodepoint - 1, MaxCodepoint - 1>> >>
      [] OTHER          -> << >>

\* blocks["deity"].extend(...), line 176
FamilyExtension(name) == IF name = "deity" THEN << MaxCodepoint >> ELSE << >>

\* is_text_stream_safe_char, lines 89-100; "*" is printable, narrow and no emoji
IsTextStreamSafeChar(safe, char) == char = Placeholder \/ char \in safe

\* _append_printable_range, lines 103-107
RECURSIVE AppendPrintableRange(_, _, _, _)
AppendPrintableRange(safe, target, cp, end) ==
    IF cp > end THEN target
    ELSE AppendPrintableRange(safe,
                              IF IsTextStreamSafeChar(safe, cp) THEN Append(target, cp) ELSE target,
                              cp + 1, end)

\* lines 170-172 for one family
RECURSIVE AppendRanges(_, _, _, _)
AppendRanges(safe, target, block_ranges, i) ==
    IF i > Len(block_ranges) THEN target
    ELSE AppendRanges(safe,
                      AppendPrintableRange(safe, target, block_ranges[i][1], block_ranges[i][2]),
                      block_ranges, i + 1)

\* _dedupe_keep_order, lines 110-118
RECURSIVE DedupeKeepOrder(_, _, _)
DedupeKeepOrder(chars, i, out) ==
    IF i > Len(chars) THEN out
    ELSE DedupeKeepOrder(chars, i + 1,
                         IF \E j \in 1..Len(out) : out[j] = chars[i] THEN out
                         ELSE Append(out, chars[i]))

FilterSafe(safe, chars) == SelectSeq(chars, LAMBDA c : IsTextStreamSafeChar(safe, c))

\* OrPlaceholder without the `or ["*"]'
KeepEmpty(filtered) == filtered

\* filtered or ["*"], line 180
OrPlaceholder(filtered) == IF filtered = << >> THEN << Placeholder >> ELSE filtered

\* build_sigil_blocks, lines 121-182
BuildSigilBlocks(safe) ==
    [name \in { BLOCK_KEYS[i] : i \in 1..Len(BLOCK_KEYS) } |->
        OrPlaceholder(FilterSafe(safe,
            DedupeKeepOrder(AppendRanges(safe, << >>, FamilyRanges(name), 1)
                                \o FamilyExtension(name), 1, << >>)))]

\* lines 194-195
RandomFamilyKeys(blocks, keys) == IF keys = << >> THEN BLOCK_KEYS ELSE keys

\* the comprehension of lines 198-203
RECURSIVE AllBlockGlyphs(_, _, _)
AllBlockGlyphs(safe, blocks, i) ==
    IF i > Len(BLOCK_KEYS) THEN << >>
    ELSE FilterSafe(safe, blocks[BLOCK_KEYS[i]]) \o AllBlockGlyphs(safe, blocks, i + 1)

\* lines 184-206: the module globals of the catalog
GlyphGlobals(safe, blocks) ==
    [SIGIL_BLOCKS        |-> blocks,
     RANDOM_FAMILY_KEYS  |-> RandomFamilyKeys(blocks,
                                 SelectSeq(BLOCK_KEYS, LAMBDA k : blocks[k] # << >>)),
     UNIFIED_TEXT_GLYPHS |-> OrPlaceholder(
                                 DedupeKeepOrder(AllBlockGlyphs(safe, blocks, 1), 1, << >>))]

Half == 65536

\* a ^ b on the n low bits: the low half of the bits, then the high half
RECURSIVE BitXor(_, _, _)
BitXor(a, b, n) ==
    IF n = 0 THEN 0
    ELSE IF n = 1 THEN (a + b) % 2
    ELSE BitXor(a % Pow2(n \div 2), b % Pow2(n \div 2), n \div 2)
         + Pow2(n \div 2) * BitXor(a \div Pow2(n \div 2), b \div Pow2(n \div 2), n - n \div 2)

\* x ^ y on 32-bit words
Xor32(x, y) == << BitXor(x[1], y[1], 16), BitXor(x[2], y[2], 16) >>

\* (entropy_byte * c) & 0xFFFFFFFF for the constant c = <<chi, clo>>
MulByte32(entropy_byte, chi, clo) ==
    << (entropy_byte * chi + (entropy_byte * clo) \div Half) % Half, (entropy_byte * clo) % Half >>

\* int(entropy_val * 4294967295.0) for entropy_val = num / den in [0, 1]:
\* floor(num * (65535 * 65536 + 65535) / den), by long division on the halves
IntOfScaled(num, den) ==
    << (num * 65535) \div den + ((((num * 65535) % den) * Half + num * 65535) \div den) \div Half,
       ((((num * 65535) % den) * Half + num * 65535) \div den) % Half >>

\* x >> 13 and (x << 7) & 0xFFFFFFFF
ShiftRight13(x) == << x[1] \div 8192, (x[1] % 8192) * 8 + x[2] \div 8192 >>

ShiftLeft7(x) == << (x[1] % 512) * 128 + x[2] \div 512, (x[2] % 512) * 128 >>

\* x % n for a small n
Mod32(x, n) == ((x[1] % n) * (Half % n) + x[2]) % n

\* line 211: 2654435761 = 40503 * 65536 + 31153
Mix(entropy_byte, num, den) == Xor32(MulByte32(entropy_byte, 40503, 31153), IntOfScaled(num, den))

\* line 215
Mix2(entropy_byte, mix) ==
    Xor32(Xor32(ShiftRight13(mix), ShiftLeft7(mix)), MulByte32(entropy_byte, 0, 7919))

\* line 213: SIGIL_BLOCKS.get(family_key) or list(UNIFIED_TEXT_GLYPHS)
Pool(G, family_key) ==
    IF G.SIGIL_BLOCKS[family_key] # << >> THEN G.SIGIL_BLOCKS[family_key]
    ELSE G.UNIFIED_TEXT_GLYPHS

\* lines 212-216, given mix
GlyphOfMix(G, entropy_byte, mix, family_key) ==
    Pool(G, family_key)[Mod32(Mix2(entropy_byte, mix), Len(Pool(G, family_key))) + 1]

FamilyOfMix(G, mix) == G.RANDOM_FAMILY_KEYS[Mod32(mix, Len(G.RANDOM_FAMILY_KEYS)) + 1]

\* get_text_glyph, lines 208-216, for entropy_val = num / den
GetTextGlyph(G, entropy_byte, num, den) ==
    GlyphOfMix(G, entropy_byte, Mix(entropy_byte, num, den),
               FamilyOfMix(G, Mix(entropy_byte, num, den)))

NoGlyphCall == [made |-> FALSE, entropy_byte |-> 0, num |-> 0, out |-> 0,
                repeated |-> FALSE, again |-> 0]

(***************************************************************************)
(* The body of the render loops for one cell, art.6.py 828-960.  c is what *)
(* lines 795-832 and the loop over the pulses computed for the cell:       *)
(* excite (1/10000); ent_byte; field, pulse, local_emergence and arc (the  *)
(* value line 891 gives on the coordinates as sheared), in 1/100; rings,   *)
(* the number of active pulses with r < max_radius and toroid_field > 0.35 *)
(* at the cell; hash1 and hash2, the outcomes of hash1 > 0.99 and          *)
(* hash2 > 0.98; on_thread, whether is_point_in_sigil holds of some active *)
(* sigil at the render's phase noise.  get_text_glyph returns a member of  *)
(* the catalog or "*", never a space: its result is "glyph".               *)
(***************************************************************************)
\* ent_val > pct / 100 for ent_val = ent_byte / 255.0
EntValAbove(ent_byte, pct) == ent_byte * 100 > pct * 255

\* line 874, for some pulse within reach (line 869)
ToroidOverride(c) == c.rings > 0 /\ EntValAbove(c.ent_byte, 25)

\* OverrideField without line 875
KeepField(c) == c.field

\* line 875
OverrideField(c) == IF ToroidOverride(c) THEN 0 ELSE c.field

\* line 876
OverridePulse(c) == IF ToroidOverride(c) THEN 100 ELSE c.pulse

\* line 877
OverrideEmergence(c) == IF ToroidOverride(c) THEN 100 ELSE c.local_emergence

\* lines 885-894
LightningChar(c) ==
    /\ OverridePulse(c) > 50
    /\ OverrideEmergence(c) > 35
    /\ Abs(c.arc) > 130
    /\ EntValAbove(c.ent_byte, 80)

\* lines 907-944
BaseField(c, field) ==
    IF Abs(field) < 10
    THEN (IF OverridePulse(c) > 80 /\ EntValAbove(c.ent_byte, 40)
          THEN "mycelium_pulse" ELSE "mycelium")
    ELSE IF field > 20
    THEN (IF c.hash1 THEN "star_near"
          ELSE IF c.hash2 THEN "star_mid"
          ELSE IF EntValAbove(c.ent_byte, 96) THEN "star_far"
          ELSE "blank")
    ELSE "blank"

\* lines 898-944: the branch that decides char
CellBranch(c) ==
    IF LightningChar(c) THEN "lightning"
    ELSE IF OverrideEmergence(c) > 35 THEN BaseField(c, OverrideField(c))
    ELSE "blank"

\* lines 947-954
SeedsSpark(c) ==
    /\ OverridePulse(c) > 85
    /\ EntValAbove(c.ent_byte, 90)
    /\ OverrideEmergence(c) > 35
    /\ c.on_thread

\* lines 828-960 for one cell.  With excite > 0 line 836 reads max_entropy_len,
\* a name bound nowhere: NameError; and each of the three tiers would leave the
\* pass of the loop by `continue' (lines 844, 849, 857).
ComposeCell(c) ==
    IF c.excite > 0
    THEN [raised |-> TRUE, branch |-> "excitation", char |-> "blank", drawn |-> FALSE,
          injected |-> FALSE]
    ELSE [raised |-> FALSE, branch |-> CellBranch(c),
          char |-> IF CellBranch(c) = "blank" THEN "blank" ELSE "glyph",
          drawn |-> CellBranch(c) # "blank",                      \* line 956
          injected |-> SeedsSpark(c)]

NoCell ==
    [excite |-> 0, ent_byte |-> 0, field |-> 0, pulse |-> 0, local_emergence |-> 0,
     rings |-> 0, arc |-> 0, hash1 |-> FALSE, hash2 |-> FALSE, on_thread |-> FALSE]

NoCellOut ==
    [made |-> FALSE, raised |-> FALSE, branch |-> "blank", char |-> "blank", drawn |-> FALSE,
     injected |-> FALSE]

\* The variables of the compositor spec while another spec runs.
CellIdle ==
    /\ cell_in = NoCell
    /\ cell_out = NoCellOut

\* The variables of the glyph spec while another spec runs.
GlyphIdle ==
    /\ glyph_safe = {}
    /\ glyph_globals = [SIGIL_BLOCKS |-> << >>, RANDOM_FAMILY_KEYS |-> << >>,
                        UNIFIED_TEXT_GLYPHS |-> << >>]
    /\ glyph_call = NoGlyphCall

\* The variables of the raster spec while another spec runs.
PbmIdle ==
    /\ pbm_bits = [width |-> 0, height |-> 0, bit |-> <<>>]
    /\ pbm_shape = "none"
    /\ pbm_file = [readable |-> FALSE, data |-> <<>>]
    /\ pbm_out = PendingMask

\* No pass of the frame loop has been made.
NoFrameLog ==
    [ran |-> FALSE, width |-> 0, height |-> 0, avg_entropy |-> 0, convergence_hits |-> 0,
     buildup_before |-> 0, dilation_before |-> 0, pulses_before |-> 0, sigils_before |-> 0,
     sparks_in |-> {}, grid_in |-> EmptyGrid, new_sparks |-> {}, spread_injections |-> 0,
     quiet_passes |-> 0,
     urandom |-> TRUE, arrival |-> "none", key |-> "unread", check_at |-> 0]

\* No call of inject_sigil_excitation has been made.
NoInjection ==
    [made |-> FALSE, x |-> 0, y |-> 0, base_intensity |-> 0, with_halo |-> FALSE,
     grid_before |-> EmptyGrid, sparks_before |-> {}, draws |-> 0]

\* The locals of main as lines 603-615 set them.
MainFresh ==
    /\ frame_no = 0
    /\ t = 0
    /\ entropy_buildup = 0
    /\ intent_dilation = 0
    /\ active_pulses = <<>>
    /\ coherence_walker = 5000
    /\ target_coherence = 5000
    /\ active_sigils = <<>>
    /\ excitation_grid = EmptyGrid
    /\ active_sparks = {}
    /\ frame_log = NoFrameLog
    /\ key_queue = << >>                       \* curses.flushinp(), line 564

\* The variables of main and of the injection spec while another spec runs.
MainIdle ==
    /\ main_pc = "idle"
    /\ MainFresh
    /\ inj_call = NoInjection

InitPbm ==
    /\ GlyphIdle
    /\ CellIdle
    /\ GeoIdle
    /\ RegIdle
    /\ MainIdle
    /\ pbm_bits \in PbmPatterns
    /\ pbm_shape \in PbmShapes
    /\ pbm_file = PbmFileOf(pbm_bits, pbm_shape)
    /\ pbm_out = PendingMask

\* The call load_pbm_mask(path).
Decode ==
    /\ pbm_out = PendingMask
    /\ pbm_out' = LoadPbmMask(pbm_file)
    /\ UNCHANGED <<pbm_bits, pbm_shape, pbm_file>>
    /\ UNCHANGED <<geoVars, regVars, mainVars, glyphVars, cellVars>>

NextPbm == Decode

SpecPbm == InitPbm /\ [][NextPbm]_vars

(***************************************************************************)
(* The geometry spec: a mask is drawn, then mask_bit, is_mask_edge,        *)
(* is_mask_corner (at a pixel) and uv_to_mask_xy, is_point_on_mask_thread, *)
(* is_point_in_mask (at a point and scale) are applied to it.              *)
(***************************************************************************)
MaxMaskBits == 9

MaxSingleSide == 8

\* The mask tuple load_pbm_mask returns for a pattern: (width, height, row_bytes, payload)
MaskOf(pattern, pad) ==
    [status |-> "mask", width |-> pattern.width, height |-> pattern.height,
     row_bytes |-> (pattern.width + 7) \div 8, payload |-> PaddedPayload(pattern, pad)]

\* The masks queried: every pattern of at most MaxMaskBits pixels (padding
\* bits clear), and every square single-pixel pattern of side at most
\* MaxSingleSide (padding bits clear or set).
GeoInputs ==
    { [bits |-> p, pad |-> 0] : p \in Patterns(MaxMaskBits) }
    \cup { [bits |-> SinglePixelPattern(c[1], c[2], c[3]), pad |-> pad] :
             c \in { q \in (1..MaxSingleSide) \X (0..(MaxSingleSide - 1)) \X (0..(MaxSingleSide - 1)) :
                       q[2] < q[1] /\ q[3] < q[1] },
             pad \in {0, 1} }

\* One scale in each band of the two probe selections (lines 362 and 412)
ScaleSamples == {13, 14, 18, 24, 32}

UvSamples == (-(UvDen + 1))..(UvDen + 1)

InitGeo ==
    /\ GlyphIdle
    /\ CellIdle
    /\ PbmIdle
    /\ RegIdle
    /\ MainIdle
    /\ \E i \in GeoInputs :
          /\ geo_bits = i.bits
          /\ geo_mask = MaskOf(i.bits, i.pad)
    /\ geo_query = [kind |-> "none", a |-> 0, b |-> 0, scale |-> 0]
    /\ geo_res = [bit |-> 0, edge |-> FALSE, corner |-> FALSE, xy |-> <<0, 0>>,
                  on_thread |-> FALSE, in_mask |-> FALSE]

\* mask_bit, is_mask_edge and is_mask_corner called at pixel (mx, my)
QueryPixel ==
    /\ geo_query.kind = "none"
    /\ \E mx \in (-1)..Max(geo_mask.width, 8 * geo_mask.row_bytes),
          my \in (-1)..geo_mask.height :
          /\ geo_query' = [kind |-> "pixel", a |-> mx, b |-> my, scale |-> 0]
          /\ geo_res' = [geo_res EXCEPT !.bit = MaskBit(geo_mask, mx, my),
                                        !.edge = IsMaskEdge(geo_mask, mx, my),
                                        !.corner = IsMaskCorner(geo_mask, mx, my)]
    /\ UNCHANGED <<geo_bits, geo_mask>>
    /\ UNCHANGED <<pbmVars, regVars, mainVars, glyphVars, cellVars>>

\* is_point_on_mask_thread and is_point_in_mask called at (u, v) = (un, vn) / UvDen
QueryPoint ==
    /\ geo_query.kind = "none"
    /\ \E un \in UvSamples, vn \in UvSamples, scale \in ScaleSamples :
          /\ geo_query' = [kind |-> "point", a |-> un, b |-> vn, scale |-> scale]
          /\ geo_res' = [geo_res EXCEPT !.xy = UvToMaskXy(un, vn, geo_mask),
                                        !.on_thread = IsPointOnMaskThread(un, vn, scale, geo_mask),
                                        !.in_mask = IsPointInMask(un, vn, scale, geo_mask)]
    /\ UNCHANGED <<geo_bits, geo_mask>>
    /\ UNCHANGED <<pbmVars, regVars, mainVars, glyphVars, cellVars>>

NextGeo == QueryPixel \/ QueryPoint

SpecGeo == InitGeo /\ [][NextGeo]_vars

(***************************************************************************)
(* The registry spec: the module is imported with some index document and  *)
(* some built-in raster on disk; line 542 loads the registry once; then    *)
(* pick_weighted_sigil_id is called with any roll.                         *)
(***************************************************************************)
RollDen == 4

NoText == [lilith |-> FALSE, grand |-> FALSE, sigil |-> FALSE]

\* entity / source_title / pbm name mentioning: nothing, "Lilith ... Grand",
\* "Lilith ... Sigil"
TextSamples ==
    { NoText,
      [lilith |-> TRUE, grand |-> TRUE, sigil |-> FALSE],
      [lilith |-> TRUE, grand |-> FALSE, sigil |-> TRUE] }

AbsentWeight == [kind |-> "absent", val |-> 0]

\* "weight" absent, 2.5, 0.0, or not a number
WeightSamples ==
    { AbsentWeight, [kind |-> "num", val |-> 2500], [kind |-> "num", val |-> 0],
      [kind |-> "bad", val |-> 0] }

\* The records an index may list.  A record is read no further than the field
\* that drops it, so the fields behind that one are left at their defaults.
IndexRecords ==
    { [id |-> [ok |-> FALSE, val |-> 0], pbm |-> "good", low |-> NoText, weight |-> AbsentWeight] }
    \cup { [id |-> [ok |-> TRUE, val |-> i], pbm |-> f, low |-> NoText, weight |-> AbsentWeight] :
             i \in SigilIds, f \in {"noname", "missing", "malformed"} }
    \cup { [id |-> [ok |-> TRUE, val |-> i], pbm |-> "good", low |-> txt, weight |-> w] :
             i \in SigilIds, txt \in TextSamples, w \in WeightSamples }

IndexDocuments ==
    { [status |-> "absent", records |-> <<>>], [status |-> "malformed", records |-> <<>>] }
    \cup { [status |-> "ok", records |-> r] :
             r \in UNION { [1..n -> IndexRecords] : n \in 0..MaxIndexRecords } }

DefaultRasters ==
    { [readable |-> FALSE, data |-> <<>>],
      PbmFileOf(SinglePixelPattern(3, 1, 1), "comment") }

InitReg ==
    /\ GlyphIdle
    /\ CellIdle
    /\ PbmIdle
    /\ GeoIdle
    /\ MainIdle
    /\ reg_index \in IndexDocuments
    /\ reg_default \in DefaultRasters
    /\ reg_pc = "import"
    /\ sigil_globals = InitialGlobals
    /\ pick_call = [made |-> FALSE, roll |-> 0, out |-> 0]

\* line 542: refresh_verified_sigil_registry() at import; an exception that
\* escapes it ends the program with the globals assigned so far.
ImportRefresh ==
    /\ reg_pc = "import"
    /\ LET r == RefreshVerifiedSigilRegistry(sigil_globals, reg_index, reg_default)
       IN  /\ sigil_globals' = r.globals
           /\ reg_pc' = IF r.raised THEN "crashed" ELSE "loaded"
    /\ UNCHANGED <<reg_index, reg_default, pick_call>>
    /\ UNCHANGED <<pbmVars, geoVars, mainVars, glyphVars, cellVars>>

\* The rolls trng.random() * ACTIVE_SIGIL_TOTAL_WEIGHT can give: random() is in
\* [0, 1), here k / RollDen and the value just below 1.
Rolls(total) == { (total * k) \div RollDen : k \in 0..(RollDen - 1) } \cup { total - 1 }

\* t_id = pick_weighted_sigil_id(trng), line 720
PickSigil ==
    /\ reg_pc = "loaded"
    /\ \E roll \in Rolls(sigil_globals.ACTIVE_SIGIL_TOTAL_WEIGHT) :
          pick_call' = [made |-> TRUE, roll |-> roll,
                        out |-> PickWeightedSigilId(sigil_globals, roll)]
    /\ UNCHANGED <<reg_index, reg_default, reg_pc, sigil_globals>>
    /\ UNCHANGED <<pbmVars, geoVars, mainVars, glyphVars, cellVars>>

NextReg == ImportRefresh \/ PickSigil

SpecReg == InitReg /\ [][NextReg]_vars

(***************************************************************************)
(* The injection spec: a grid and a spark set are drawn, then              *)
(* inject_sigil_excitation is called on them once, with the draws of trng  *)
(* taken from the ends of the ranges the code draws from.                  *)
(***************************************************************************)
InjWidth == 4

InjHeight == 3

MaxHaloHits == 1

InjCells == { <<1, 1>>, <<2, 1>> }

InjLevels == { 300, 9700 }

\* the grids the call is made on: empty, or an entry, low or high, at each of two cells
InjGrids == { EmptyGrid } \cup [InjCells -> InjLevels]

\* base_intensity: main passes 1.0 (and 0.94); 0.3 is below the high level
BaseSamples == { 3000, 10000 }

HaloHits(halo) == Cardinality({ i \in 1..8 : halo[i] # 0 })

\* the halo draws: for each neighbour no hit, or a hit with uniform(0.04, 0.18) at an end
HaloDraws == { halo \in [1..8 -> {0, 4, 18}] : HaloHits(halo) <= MaxHaloHits }

\* the spike draws: uniform(0.22, 0.42) and uniform(0.45, 0.70) at their ends
SpikeDraws ==
    { NoDraws.spike } \cup
    [hit : {TRUE}, dir : 1..8, pct : {22, 42}, steps : 1..3,
     falloff : { <<45, 45, 45>>, <<70, 70, 70>> }]

InitInject ==
    /\ GlyphIdle
    /\ CellIdle
    /\ PbmIdle
    /\ GeoIdle
    /\ RegIdle
    /\ main_pc = "idle"
    /\ frame_no = 0
    /\ t = 0
    /\ entropy_buildup = 0
    /\ intent_dilation = 0
    /\ active_pulses = <<>>
    /\ coherence_walker = 5000
    /\ target_coherence = 5000
    /\ active_sigils = <<>>
    /\ frame_log = NoFrameLog
    /\ key_queue = << >>
    /\ excitation_grid \in InjGrids
    /\ active_sparks = { <<0, 0>> }
    /\ inj_call = NoInjection

\* what trng holds ready when the call is made with_halo=False or aimed outside
\* the grid: misses throughout, or a halo hit on the right-hand neighbour and a
\* spike to the left
PlainOffers ==
    { NoDraws,
      [halo  |-> [i \in 1..8 |-> IF i = 2 THEN 18 ELSE 0],
       spike |-> [hit |-> TRUE, dir |-> 1, pct |-> 42, steps |-> 1, falloff |-> <<70, 70, 70>>]] }

\* The call with_halo=False, or aimed outside the grid; offer is what trng would
\* draw if it were asked.
InjectPlain ==
    /\ ~inj_call.made
    /\ \E x \in -1..InjWidth, y \in -1..InjHeight, base \in BaseSamples, with_halo \in BOOLEAN,
          offer \in PlainOffers :
         /\ with_halo => ~InBounds(x, y, InjWidth, InjHeight)
         /\ inj_call' = [made |-> TRUE, x |-> x, y |-> y, base_intensity |-> base,
                         with_halo |-> with_halo,
                         grid_before |-> excitation_grid, sparks_before |-> active_sparks,
                         draws |-> DrawsConsumed(x, y, offer, InjWidth, InjHeight, with_halo)]
         /\ excitation_grid' = InjectSigilExcitation(excitation_grid, active_sparks, x, y, base,
                                   offer, InjWidth, InjHeight, with_halo).grid
         /\ active_sparks' = InjectSigilExcitation(excitation_grid, active_sparks, x, y, base,
                                   offer, InjWidth, InjHeight, with_halo).sparks
    /\ UNCHANGED <<main_pc, frame_no, t, entropy_buildup, intent_dilation, active_pulses,
                   coherence_walker, target_coherence, active_sigils, frame_log, key_queue>>
    /\ UNCHANGED <<pbmVars, geoVars, regVars, glyphVars, cellVars>>

\* The call with_halo=True inside the grid.
InjectHalo ==
    /\ ~inj_call.made
    /\ \E x \in 0..(InjWidth - 1), y \in 0..(InjHeight - 1), base \in BaseSamples,
          halo \in HaloDraws, spike \in SpikeDraws :
         /\ inj_call' = [made |-> TRUE, x |-> x, y |-> y, base_intensity |-> base,
                         with_halo |-> TRUE,
                         grid_before |-> excitation_grid, sparks_before |-> active_sparks,
                         draws |-> DrawsConsumed(x, y, [halo |-> halo, spike |-> spike],
                                                 InjWidth, InjHeight, TRUE)]
         /\ excitation_grid' = InjectSigilExcitation(excitation_grid, active_sparks, x, y, base,
                                   [halo |-> halo, spike |-> spike],
                                   InjWidth, InjHeight, TRUE).grid
         /\ active_sparks' = active_sparks \cup { <<x, y>> }
    /\ UNCHANGED <<main_pc, frame_no, t, entropy_buildup, intent_dilation, active_pulses,
                   coherence_walker, target_coherence, active_sigils, frame_log, key_queue>>
    /\ UNCHANGED <<pbmVars, geoVars, regVars, glyphVars, cellVars>>

NextInject == InjectPlain \/ InjectHalo

SpecInject == InitInject /\ [][NextInject]_vars

(***************************************************************************)
(* The frame specs.  One pass of the while loop of main is one action; the *)
(* draws are taken where the code takes them, from the sets of the env     *)
(* record.  SpecSched feeds the schedulers (entropy means on both sides of *)
(* 0.51, convergence counts on both sides of the intent gate) and keeps    *)
(* the sigil draws at a miss; SpecExcite feeds the excitation automaton    *)
(* (spawns, ignitions, spreads and seedings at a few cells of the last two *)
(* columns of a 40x10 viewport) at one entropy mean, the intent gate open. *)
(***************************************************************************)
MaxSchedFrames == 4

MaxExciteFrames == 10

MaxSigils == 1

MaxElapsed == 1000

\* the registries main can start with: the built-in raster alone, nothing
\* loadable, and an index of two records
MainEnvironments ==
    { [index |-> [status |-> "absent", records |-> <<>>],
       default |-> PbmFileOf(SinglePixelPattern(3, 1, 1), "comment")],
      [index |-> [status |-> "absent", records |-> <<>>],
       default |-> [readable |-> FALSE, data |-> <<>>]],
      [index |-> [status |-> "ok",
                  records |-> << [id |-> [ok |-> TRUE, val |-> 1], pbm |-> "good",
                                  low |-> NoText, weight |-> AbsentWeight],
                                 [id |-> [ok |-> TRUE, val |-> 2], pbm |-> "good",
                                  low |-> NoText, weight |-> AbsentWeight] >>],
       default |-> [readable |-> FALSE, data |-> <<>>]] }

\* main starts after the import has run line 542
InitMain(environments) ==
    /\ GlyphIdle
    /\ CellIdle
    /\ PbmIdle
    /\ GeoIdle
    /\ \E e \in environments :
         /\ reg_index = e.index
         /\ reg_default = e.default
         /\ sigil_globals = RefreshVerifiedSigilRegistry(InitialGlobals, e.index, e.default).globals
    /\ reg_pc = "loaded"
    /\ pick_call = [made |-> FALSE, roll |-> 0, out |-> 0]
    /\ main_pc = "running"
    /\ MainFresh
    /\ inj_call = NoInjection

\* no sigil is spawned: both draws of lines 703 and 707 miss
SpawnMiss ==
    [base_roll |-> 9999, boost_roll |-> 9999, cx |-> 0, cy |-> 0, scale |-> 300,
     pick_roll |-> 0, life |-> 800]

\* the draws of a spawn: either coin wins; the pick at the ends of its range,
\* the lower with the centre and the scale at the lower ends of their ranges
\* for a 40x10 viewport (uniform(-20, 60), uniform(-5, 15), uniform(3, 12)),
\* the upper with these at the upper ends; the life at the lower end of
\* uniform(8.0, 20.0)
SpawnHits(g) ==
    { [base_roll |-> b[1], boost_roll |-> b[2], cx |-> r[2], cy |-> r[3], scale |-> r[4],
       pick_roll |-> r[1], life |-> l] :
        b \in { <<0, 9999>>, <<9999, 0>> },
        r \in { <<0, -20, -5, 300>>, <<g.ACTIVE_SIGIL_TOTAL_WEIGHT - 1, 60, 15, 1200>> },
        l \in { 800 } }

\* the ignition draws of one sigil
IgniteMiss == [roll |-> 9999, rx |-> 0, ry |-> 0, on_thread |-> FALSE]

IgniteDraws(cells) ==
    { IgniteMiss,
      [roll |-> 0, rx |-> -1, ry |-> 0, on_thread |-> TRUE],
      [roll |-> 0, rx |-> 0, ry |-> 0, on_thread |-> FALSE] }
    \cup { [roll |-> 0, rx |-> c[1], ry |-> c[2], on_thread |-> TRUE] : c \in cells }

\* startup_key_guard_until = time.time() + 0.25, line 565, in 1/100 s
GuardDeadline == 25

\* The loop has no bound of its own.  A spec either stops it after
\* env.max_frames passes and MaxElapsed of time, or (env.forever) follows it
\* for ever with the pass count and the clock held at their bounds once there.
PassAllowed(env) == env.forever \/ frame_no < env.max_frames

ElapsedAllowed(env, dt) == env.forever \/ t + dt <= MaxElapsed

CountAfter(env) == IF env.forever THEN Min(frame_no + 1, env.max_frames) ELSE frame_no + 1

ClockAfter(env, now) == IF env.forever THEN Min(now, env.max_elapsed) ELSE now

\* the events waiting once those that arrived during the pass have joined
\* (arrival is "none" or one event)
Arrive(queue, arrival) == IF arrival = "none" THEN queue ELSE Append(queue, arrival)

\* stdscr.getch() in nodelay mode, line 1007: the oldest event, or -1 ("none")
GetCh(queue) == IF queue = << >> THEN "none" ELSE Head(queue)

\* what getch leaves in the queue
AfterGetCh(queue) == IF queue = << >> THEN queue ELSE Tail(queue)

\* KeyEnds without the test of line 1011
KeyEndsUnguarded(key, now) == key # "resize" /\ key # "none"

\* lines 1008-1012: does the key read at time now (since start) break the loop
KeyEnds(key, now) == key # "resize" /\ key # "none" /\ now >= GuardDeadline

\* how many passes in a row have ended with no sigil active, counted from the
\* first such pass that began with excitation on the grid
QuietPasses(s) ==
    IF s.active_sigils # <<>> THEN 0
    ELSE IF frame_log.quiet_passes = 0 /\ excitation_grid = EmptyGrid THEN 0
    ELSE frame_log.quiet_passes + 1

\* lines 1005-1014: the pass ends with the key check, unless an exception ended
\* it before
FrameCommit(s, in, env) ==
        /\ main_pc' = IF s.raised THEN "crashed"
                      ELSE IF KeyEnds(GetCh(Arrive(key_queue, in.arrival)), s.t + in.lag)
                           THEN "exited" ELSE "running"
        /\ key_queue' = IF s.raised THEN Arrive(key_queue, in.arrival)
                        ELSE AfterGetCh(Arrive(key_queue, in.arrival))
        /\ frame_no' = CountAfter(env)
        /\ t' = ClockAfter(env, s.t)
        /\ entropy_buildup' = s.entropy_buildup
        /\ intent_dilation' = s.intent_dilation
        /\ active_pulses' = s.active_pulses
        /\ coherence_walker' = s.coherence_walker
        /\ target_coherence' = s.target_coherence
        /\ active_sigils' = s.active_sigils
        /\ excitation_grid' = s.excitation_grid
        /\ active_sparks' = s.active_sparks
        /\ frame_log' = [ran |-> TRUE, width |-> in.width, height |-> in.height,
                         avg_entropy |-> in.avg_entropy,
                         convergence_hits |-> in.convergence_hits,
                         buildup_before |-> entropy_buildup,
                         dilation_before |-> intent_dilation,
                         pulses_before |-> Len(active_pulses),
                         sigils_before |-> Len(active_sigils),
                         sparks_in |-> s.sparks_in,
                         grid_in |-> s.grid_in,
                         new_sparks |-> s.new_sparks,
                         spread_injections |-> s.spread_injections,
                         quiet_passes |-> QuietPasses(s),
                         urandom |-> in.urandom,
                         arrival |-> in.arrival,
                         key |-> IF s.raised THEN "unread"
                                 ELSE GetCh(Arrive(key_queue, in.arrival)),
                         check_at |-> s.t + in.lag]
        /\ UNCHANGED inj_call
        /\ UNCHANGED <<pbmVars, geoVars, regVars, glyphVars, cellVars>>

\* lines 789-960
FrameRender(s, in, env, g) ==
    \E seeds \in SUBSET SeedCandidates(s, in, g, env.cells) :
        FrameCommit(Render(s, in, seeds), in, env)

\* lines 760-786
FramePropagate(s, in, env, g) ==
    \E lit \in SUBSET { c \in SpreadCandidates(s, in) \cap env.cells :
                          IsPartOfSigil(s, g, TRUE) /\ 0 < SpreadChance(s, in) } :
        FrameRender(Propagate(s, in, lit), in, env, g)

\* lines 733-758
FrameIgnite(s, in, env, g) ==
    \E draws \in [1..Len(s.active_sigils) -> env.ignites] :
        FramePropagate(Decay(IgniteLoop(s, in, g, draws, 1), in), in, env, g)

\* lines 706-733; no further sigil is spawned once env.max_sigils are active
FrameSpawn(s, in, env, g) ==
    \E draw \in { SpawnMiss } \cup
                (IF env.spawns /\ Len(s.active_sigils) < env.max_sigils THEN SpawnHits(g) ELSE {}) :
        FrameIgnite(CleanupSigils(Spawn(s, in, g, draw)), in, env, g)

\* lines 690-699
FrameCoherence(s, in, env, g) ==
    \E reroll \in env.rerolls :
        FrameSpawn(Coherence(CleanupPulses(s), reroll), in, env, g)

\* lines 679-688
FramePulse(s, in, env, g) ==
    IF PulseFires(s)
    THEN \E off \in (PulseOffsets(in.width) \X PulseOffsets(in.height)) \cap env.pulse_offsets :
             FrameCoherence(AppendPulse(s, in, off[1], off[2]), in, env, g)
    ELSE FrameCoherence(s, in, env, g)

\* random.SystemRandom (line 599) draws every number from os.urandom
SystemRandomWorks(urandom) == urandom

\* lines 630-634: does the fetch of n = width * height entropy bytes raise.  When
\* os.urandom raises NotImplementedError the bytes are asked of trng.randint.
EntropyFetchRaises(urandom, n) == ~urandom /\ n > 0 /\ ~SystemRandomWorks(urandom)

MaxPending == 2

\* A pass that the exception of line 634 ends: nothing was erased or drawn, no
\* key was read.
FrameAbort(in) ==
    /\ main_pc' = "crashed"
    /\ frame_no' = frame_no + 1
    /\ t' = t + in.dt
    /\ key_queue' = Arrive(key_queue, in.arrival)
    /\ frame_log' = [NoFrameLog EXCEPT !.width = in.width, !.height = in.height,
                                       !.quiet_passes = frame_log.quiet_passes,
                                       !.urandom = in.urandom, !.arrival = in.arrival]
    /\ UNCHANGED <<entropy_buildup, intent_dilation, active_pulses, coherence_walker,
                   target_coherence, active_sigils, excitation_grid, active_sparks, inj_call>>
    /\ UNCHANGED <<pbmVars, geoVars, regVars, glyphVars, cellVars>>

\* One pass of the while loop with a viewport of at least 40x10, lines 617-1014.
\* in.arrival is the input event that reaches curses during the pass, in.lag the
\* time from line 618 to the getch of line 1007.
Frame(env) ==
    /\ main_pc = "running"
    /\ PassAllowed(env)
    /\ \E in \in [dt : env.dts, width : {40}, height : {10},
                  avg_entropy : env.avgs, convergence_hits : env.hits,
                  urandom : env.urandom, arrival : env.keys, lag : env.lags] :
         /\ ElapsedAllowed(env, in.dt)
         /\ in.arrival = "none" \/ Len(key_queue) < MaxPending
         /\ IF EntropyFetchRaises(in.urandom, in.width * in.height)
            THEN FrameAbort(in)
            ELSE FramePulse(Schedule(Locals, in), in, env, sigil_globals)

\* SmallFrame without the `continue' of line 626: the pass goes on into the
\* simulation with the small viewport
SmallFrameFallsThrough(env) ==
    /\ main_pc = "running"
    /\ PassAllowed(env)
    /\ \E in \in [dt : {10}, width : {39}, height : {10},
                  avg_entropy : env.avgs, convergence_hits : env.hits,
                  urandom : {TRUE}, arrival : env.keys, lag : env.lags] :
         /\ ElapsedAllowed(env, in.dt)
         /\ in.arrival = "none" \/ Len(key_queue) < MaxPending
         /\ FramePulse(Schedule(Locals, in), in, env, sigil_globals)

\* One pass with a viewport below 40x10, lines 617-626: the message is shown,
\* the pass sleeps 0.1 s and continues; no key is read.
SmallFrame(env) ==
    /\ main_pc = "running"
    /\ PassAllowed(env)
    /\ ElapsedAllowed(env, 10)
    /\ \E size \in { <<39, 10>>, <<40, 9>> }, arrival \in env.keys :
         /\ arrival = "none" \/ Len(key_queue) < MaxPending
         /\ frame_log' = [NoFrameLog EXCEPT !.width = size[1], !.height = size[2],
                                            !.quiet_passes = frame_log.quiet_passes,
                                            !.arrival = arrival]
         /\ key_queue' = Arrive(key_queue, arrival)
    /\ frame_no' = CountAfter(env)
    /\ t' = ClockAfter(env, t + 10)
    /\ UNCHANGED <<main_pc, entropy_buildup, intent_dilation, active_pulses, coherence_walker,
                   target_coherence, active_sigils, excitation_grid, active_sparks, inj_call>>
    /\ UNCHANGED <<pbmVars, geoVars, regVars, glyphVars, cellVars>>

\* what SpecSched feeds the pass
SchedEnv ==
    [max_frames |-> MaxSchedFrames,
     max_elapsed |-> MaxElapsed,
     forever    |-> FALSE,
     dts        |-> { 5, 400 },
     avgs       |-> { 0, 5100, 6300 },
     hits       |-> { 0, 11 },
     pulse_offsets |-> { <<-14, -4>>, <<13, 3>> },
     rerolls    |-> { [roll |-> 9999, target |-> 5000], [roll |-> 0, target |-> 12000] },
     spawns     |-> FALSE,
     max_sigils |-> MaxSigils,
     ignites    |-> { IgniteMiss },
     cells      |-> {},
     urandom    |-> BOOLEAN,
     keys       |-> { "none", "resize", "other" },
     lags       |-> { 0, 2 }]

InitSched == InitMain({ e \in MainEnvironments : ~e.default.readable /\ e.index.status = "absent" })

FrameSched == Frame(SchedEnv)

SmallFrameSched == SmallFrame(SchedEnv)

NextSched == FrameSched \/ SmallFrameSched

SpecSched == InitSched /\ [][NextSched]_vars

MaxQuitFrames == 5

MaxQuitElapsed == 40

\* what SpecQuit feeds the pass: a quiet field, and keys and resizes arriving;
\* the loop is followed for ever
QuitEnv ==
    [max_frames |-> MaxQuitFrames,
     max_elapsed |-> MaxQuitElapsed,
     forever    |-> TRUE,
     dts        |-> { 5, 400 },
     avgs       |-> { 5100 },
     hits       |-> { 0 },
     pulse_offsets |-> { <<13, 3>> },
     rerolls    |-> { [roll |-> 9999, target |-> 5000] },
     spawns     |-> FALSE,
     max_sigils |-> MaxSigils,
     ignites    |-> { IgniteMiss },
     cells      |-> {},
     urandom    |-> { TRUE },
     keys       |-> { "none", "resize", "other" },
     lags       |-> { 0 }]

FrameQuit == Frame(QuitEnv)

SmallFrameQuit == SmallFrame(QuitEnv)

NextQuit == FrameQuit \/ SmallFrameQuit

\* `while True' (line 617): as long as the loop has not been left, the next pass
\* is made; the sleeps of lines 625 and 1014 are finite.
SpecQuit == InitSched /\ [][NextQuit]_vars /\ WF_vars(NextQuit)

MaxExpireFrames == 5

MaxExpireSigils == 2

\* what SpecExpire feeds the pass: frame times that add up to the lifespans
\* (3.0 s of a pulse, 8.0 s of a sigil) and go past them, an entropy mean that
\* fires a pulse every other pass, the intent gate closed, spawns, no ignition
ExpireEnv ==
    [max_frames |-> MaxExpireFrames,
     max_elapsed |-> MaxElapsed,
     forever    |-> FALSE,
     dts        |-> { 5, 100, 200, 400 },
     avgs       |-> { 6300 },
     hits       |-> { 0 },
     pulse_offsets |-> { <<13, 3>> },
     rerolls    |-> { [roll |-> 9999, target |-> 5000] },
     spawns     |-> TRUE,
     max_sigils |-> MaxExpireSigils,
     ignites    |-> { IgniteMiss },
     cells      |-> {},
     urandom    |-> { TRUE },
     keys       |-> { "none" },
     lags       |-> { 0 }]

FrameExpire == Frame(ExpireEnv)

NextExpire == FrameExpire

SpecExpire == InitSched /\ [][NextExpire]_vars

MaxFadeFrames == 15

\* the cells SpecFade ignites: two cells of the last column, which the render
\* loops do not reach, so that the passes go on while they hold excitation
FadeCells == { <<39, 3>>, <<39, 4>> }

\* what SpecFade feeds the pass: one sigil of life 8.0 s that is ignited at
\* one cell and spreads to the other, a frame time of 9 s that outlasts it,
\* then short frames; the intent gate open (the slower decay)
FadeEnv ==
    [max_frames |-> MaxFadeFrames,
     max_elapsed |-> MaxElapsed,
     forever    |-> FALSE,
     dts        |-> { 5, 900 },
     avgs       |-> { 5300 },
     hits       |-> { 11 },
     pulse_offsets |-> { <<13, -4>> },
     rerolls    |-> { [roll |-> 9999, target |-> 5000] },
     spawns     |-> TRUE,
     max_sigils |-> MaxSigils,
     ignites    |-> { IgniteMiss, [roll |-> 0, rx |-> 39, ry |-> 3, on_thread |-> TRUE] },
     cells      |-> FadeCells,
     urandom    |-> { TRUE },
     keys       |-> { "none" },
     lags       |-> { 0 }]

InitFade == InitMain({ e \in MainEnvironments : e.default.readable })

FrameFade == Frame(FadeEnv)

NextFade == FrameFade

SpecFade == InitFade /\ [][NextFade]_vars

\* the cells SpecExcite ignites, spreads to and seeds: a rendered cell and two
\* cells of the last column, which the render loops do not reach
ExciteCells == { <<38, 3>>, <<39, 3>>, <<39, 4>> }

\* what SpecExcite feeds the pass
ExciteEnv ==
    [max_frames |-> MaxExciteFrames,
     max_elapsed |-> MaxElapsed,
     forever    |-> FALSE,
     dts        |-> { 5, 900 },
     avgs       |-> { 5300 },
     hits       |-> { 11 },
     pulse_offsets |-> { <<13, -4>> },
     rerolls    |-> { [roll |-> 9999, target |-> 5000] },
     spawns     |-> TRUE,
     max_sigils |-> MaxSigils,
     ignites    |-> IgniteDraws(ExciteCells),
     cells      |-> ExciteCells,
     urandom    |-> { TRUE },
     keys       |-> { "none" },
     lags       |-> { 0 }]

InitExcite == InitMain(MainEnvironments)

FrameExcite == Frame(ExciteEnv)

NextExcite == FrameExcite

SpecExcite == InitExcite /\ [][NextExcite]_vars

\* The installations in which no mask loads: the default raster is unreadable
\* and the index is absent, is no JSON document, or lists only records whose
\* rasters are missing or malformed.
NoMaskEnvironments ==
    { [index |-> ix, default |-> [readable |-> FALSE, data |-> <<>>]] :
        ix \in { [status |-> "absent", records |-> <<>>],
                 [status |-> "malformed", records |-> <<>>],
                 [status |-> "ok",
                  records |-> << [id |-> [ok |-> TRUE, val |-> 1], pbm |-> "missing",
                                  low |-> NoText, weight |-> AbsentWeight],
                                 [id |-> [ok |-> TRUE, val |-> 2], pbm |-> "malformed",
                                  low |-> NoText, weight |-> AbsentWeight] >>] } }

InitInert == InitMain(NoMaskEnvironments)

\* the frames of SpecExcite, run where no mask loaded
SpecInert == InitInert /\ [][NextExcite]_vars

(***************************************************************************)
(* The glyph spec: the module is imported under some verdict of            *)
(* unicodedata on the code points, then get_text_glyph is called, and      *)
(* called again on the same arguments.                                     *)
(***************************************************************************)
\* entropy_val = num / EntropyValDen: 0, 0.25, 0.5, 0.75, 1.0, exact as floats
EntropyValDen == 4

InitGlyph ==
    /\ CellIdle
    /\ PbmIdle
    /\ GeoIdle
    /\ RegIdle
    /\ MainIdle
    /\ glyph_safe \in SUBSET (1..MaxCodepoint)
    /\ glyph_globals = GlyphGlobals(glyph_safe, BuildSigilBlocks(glyph_safe))
    /\ glyph_call = NoGlyphCall

\* a call get_text_glyph(entropy_byte, entropy_val)
CallGetTextGlyph ==
    /\ ~glyph_call.made
    /\ \E entropy_byte \in 0..255, num \in 0..EntropyValDen :
          glyph_call' = [made |-> TRUE, entropy_byte |-> entropy_byte, num |-> num,
                         out |-> GetTextGlyph(glyph_globals, entropy_byte, num, EntropyValDen),
                         repeated |-> FALSE, again |-> 0]
    /\ UNCHANGED <<glyph_safe, glyph_globals>>
    /\ UNCHANGED <<pbmVars, geoVars, regVars, mainVars, cellVars>>

\* the same call once more
RepeatGetTextGlyph ==
    /\ glyph_call.made
    /\ ~glyph_call.repeated
    /\ glyph_call' = [glyph_call EXCEPT
                         !.repeated = TRUE,
                         !.again = GetTextGlyph(glyph_globals, glyph_call.entropy_byte,
                                                glyph_call.num, EntropyValDen)]
    /\ UNCHANGED <<glyph_safe, glyph_globals>>
    /\ UNCHANGED <<pbmVars, geoVars, regVars, mainVars, cellVars>>

NextGlyph == CallGetTextGlyph \/ RepeatGetTextGlyph

SpecGlyph == InitGlyph /\ [][NextGlyph]_vars

(***************************************************************************)
(* The compositor spec: the values of one cell are drawn on both sides of  *)
(* every threshold the body of the render loops tests, then the body runs. *)
(***************************************************************************)
CellInputs ==
    [excite : { 0, 5000 },
     ent_byte : { 63, 64, 103, 205, 229, 230, 245 },
     field : { -5, 0, 10, 20, 21 },
     pulse : { 50, 51, 81, 85, 86 },
     local_emergence : { 35, 36 },
     rings : { 0, 1, 2 },
     arc : { -131, 0, 130, 131 },
     hash1 : BOOLEAN, hash2 : BOOLEAN, on_thread : BOOLEAN]

InitCell ==
    /\ PbmIdle
    /\ GeoIdle
    /\ RegIdle
    /\ MainIdle
    /\ GlyphIdle
    /\ cell_in \in CellInputs
    /\ cell_out = NoCellOut

\* one pass of the body of the render loops, lines 795-960
RenderCell ==
    /\ ~cell_out.made
    /\ cell_out' = [made |-> TRUE, raised |-> ComposeCell(cell_in).raised,
                    branch |-> ComposeCell(cell_in).branch,
                    char |-> ComposeCell(cell_in).char,
                    drawn |-> ComposeCell(cell_in).drawn,
                    injected |-> ComposeCell(cell_in).injected]
    /\ UNCHANGED cell_in
    /\ UNCHANGED <<pbmVars, geoVars, regVars, mainVars, glyphVars>>

NextCell == RenderCell

SpecCell == InitCell /\ [][NextCell]_vars

(***************************************************************************)
(* Claims about the raster decoder (checked under SpecPbm).                *)
(***************************************************************************)
PbmDecoded == pbm_out # PendingMask

\* ceil(w / 8), stated without the decoder's own arithmetic
CeilDiv8(w) == CHOOSE k \in (-(Abs(w) + 1))..(Abs(w) + 1) : 8 * k >= w /\ 8 * (k - 1) < w

\* The file breaks the layout: wrong or short magic, fewer than two size tokens,
\* a size token that is no integer, a payload shorter than ceil(width/8)*height,
\* or a file that cannot be read.
PbmStructuralViolation ==
    \/ pbm_shape \in {"p5", "short_magic", "one_token", "no_token", "bad_token", "unreadable"}
    \/ pbm_shape = "truncated" /\ Len(PackedPayload(pbm_bits)) > 0

\* C1: round trip.  A pattern written in the raster layout (any of the
\* well-formed shapes) decodes to a mask whose mask_bit equals the original bit
\* at every pixel, whatever the payload bytes are.
C1_RoundTrip ==
    (PbmDecoded /\ pbm_shape \in PbmGoodShapes)
        => /\ pbm_out.status = "mask"
           /\ pbm_out.width = pbm_bits.width
           /\ pbm_out.height = pbm_bits.height
           /\ \A x \in 0..(pbm_bits.width - 1), y \in 0..(pbm_bits.height - 1) :
                  MaskBit(pbm_out, x, y) = pbm_bits.bit[<<x, y>>]

\* C2: a file with a structural violation decodes to None: no mask is returned
\* and no exception escapes.
C2_ViolationYieldsNone ==
    (PbmDecoded /\ PbmStructuralViolation) => pbm_out = NoMask

C2_Witness ==
    /\ PbmDecoded
    /\ pbm_shape = "bad_token"
    /\ pbm_bits.width = 8
    /\ pbm_out = NoMask

\* C3: every mask the decoder returns has len(payload) = rowStride * height and
\* rowStride = ceil(width / 8).
C3_MaskShape ==
    pbm_out.status = "mask"
        => /\ Len(pbm_out.payload) = pbm_out.row_bytes * pbm_out.height
           /\ pbm_out.row_bytes = CeilDiv8(pbm_out.width)

C3_Witness ==
    /\ pbm_out.status = "mask"
    /\ pbm_out.width = 3
    /\ pbm_out.height = 2
    /\ Len(pbm_out.payload) = 2

(***************************************************************************)
(* Claims about the mask geometry (checked under SpecGeo).                 *)
(***************************************************************************)
\* The foreground pixels of the pattern the mask was packed from
GeoForeground ==
    { c \in (0..(geo_bits.width - 1)) \X (0..(geo_bits.height - 1)) : geo_bits.bit[c] = 1 }

\* C6: the outline query is false whenever u or v lies outside [-1, 1], even
\* when the clamped pixel position has an outline pixel in its probe window.
C6_ThreadFalseOutside ==
    (geo_query.kind = "point" /\ OutsideUnitSquare(geo_query.a, geo_query.b))
        => ~geo_res.on_thread

C6_Witness ==
    /\ geo_query.kind = "point"
    /\ geo_query.a > UvDen
    /\ geo_query.b < -UvDen
    /\ ~geo_res.on_thread
    /\ IsPointOnMaskThreadClamped(geo_query.a, geo_query.b, geo_query.scale, geo_mask)

\* C7: on a mask with exactly one foreground pixel p, mask_bit is 1 at p and 0 at
\* every other pixel, in bounds or not, and p is both an edge and a corner.
C7_SinglePixel ==
    (geo_query.kind = "pixel" /\ Cardinality(GeoForeground) = 1)
        => LET p == CHOOSE c \in GeoForeground : TRUE
               q == <<geo_query.a, geo_query.b>>
           IN  /\ geo_res.bit = (IF q = p THEN 1 ELSE 0)
               /\ (q = p) => (geo_res.edge /\ geo_res.corner)

\* Scenario A: the 8x8 raster whose only foreground pixel is (3,3), asked at (3,3)
C7_Witness ==
    /\ geo_query = [kind |-> "pixel", a |-> 3, b |-> 3, scale |-> 0]
    /\ geo_bits = SinglePixelPattern(8, 3, 3)
    /\ geo_res.bit = 1
    /\ geo_res.edge
    /\ geo_res.corner

\* is some raw bit set in the square window of the given radius around the
\* pixel the queried point maps to
RawBitInWindow(probe) ==
    \E oy \in (-probe)..probe, ox \in (-probe)..probe :
        MaskBit(geo_mask, UvToMaskXy(geo_query.a, geo_query.b, geo_mask)[1] + ox,
                          UvToMaskXy(geo_query.a, geo_query.b, geo_mask)[2] + oy) = 1

\* C30: at every scale is_point_in_mask searches the window
\* is_point_on_mask_thread searches at that scale (the same radius 3, 2 or 1)
\* and differs only in testing raw set bits: for a point of the unit square it
\* answers whether a raw bit is set in the outline query's window.
C30_SameProbeWindow ==
    (geo_query.kind = "point" /\ ~OutsideUnitSquare(geo_query.a, geo_query.b)) =>
        /\ InMaskProbe(geo_query.scale) = ThreadProbe(geo_query.scale)
        /\ geo_res.in_mask = RawBitInWindow(ThreadProbe(geo_query.scale))

\* a set pixel with a clear or out-of-bounds 8-neighbour, told from the bits
SetWithClearNeighbour(mx, my) ==
    /\ MaskBit(geo_mask, mx, my) = 1
    /\ \E oy \in {-1, 0, 1}, ox \in {-1, 0, 1} :
           <<ox, oy>> # <<0, 0>> /\ MaskBit(geo_mask, mx + ox, my + oy) = 0

\* does the outline query's window around the pixel the queried point maps to
\* hold a set pixel with a clear or out-of-bounds 8-neighbour
WindowHoldsBoundaryPixel ==
    \E oy \in (-ThreadProbe(geo_query.scale))..ThreadProbe(geo_query.scale),
       ox \in (-ThreadProbe(geo_query.scale))..ThreadProbe(geo_query.scale) :
        SetWithClearNeighbour(UvToMaskXy(geo_query.a, geo_query.b, geo_mask)[1] + ox,
                              UvToMaskXy(geo_query.a, geo_query.b, geo_mask)[2] + oy)

\* C31: for every mask and pixel is_mask_corner implies is_mask_edge, and
\* is_mask_edge holds exactly at the set pixels with a clear or out-of-bounds
\* 8-neighbour; so for a point of the unit square is_point_on_mask_thread is
\* true exactly when its probe window holds such a pixel (the corner test adds
\* nothing to the edge test).
C31_CornerImpliesEdge ==
    /\ geo_query.kind = "pixel" =>
           /\ geo_res.corner => geo_res.edge
           /\ geo_res.edge = SetWithClearNeighbour(geo_query.a, geo_query.b)
    /\ (geo_query.kind = "point" /\ ~OutsideUnitSquare(geo_query.a, geo_query.b)) =>
           geo_res.on_thread = WindowHoldsBoundaryPixel

\* a corner pixel of a mask that also has a set pixel that is an edge without
\* being a corner
C31_Witness ==
    /\ geo_query.kind = "pixel"
    /\ geo_res.corner
    /\ geo_res.edge
    /\ \E c \in GeoForeground :
           IsMaskEdge(geo_mask, c[1], c[2]) /\ ~IsMaskCorner(geo_mask, c[1], c[2])

\* C32: for every mask, point and scale, is_point_on_mask_thread implies
\* is_point_in_mask: the containment query's probe radius is never smaller
\* than the outline query's at the same scale, and an outline pixel is a set
\* pixel.
C32_ThreadImpliesInMask ==
    geo_query.kind = "point" =>
        /\ InMaskProbe(geo_query.scale) >= ThreadProbe(geo_query.scale)
        /\ geo_res.on_thread => geo_res.in_mask

\* a point on the outline at a scale where the containment query searches
\* the wider window (radius 3 against 2), on a mask where another point is
\* inside without being on the outline
C32_Witness ==
    /\ geo_query.kind = "point"
    /\ geo_query.scale = 14
    /\ geo_res.on_thread
    /\ geo_res.in_mask
    /\ \E un \in UvSamples, vn \in UvSamples :
           /\ IsPointInMask(un, vn, 24, geo_mask)
           /\ ~IsPointOnMaskThread(un, vn, 24, geo_mask)

(***************************************************************************)
(* Claims about the registry and the weighted draw (checked under SpecReg).*)
(***************************************************************************)
WeightTableIds == { sigil_globals.ACTIVE_SIGIL_WEIGHT_TABLE[i][1] :
                      i \in 1..Len(sigil_globals.ACTIVE_SIGIL_WEIGHT_TABLE) }

\* The sum of the first k weights of the table
RECURSIVE PrefixWeight(_, _)
PrefixWeight(table, k) == IF k = 0 THEN 0 ELSE PrefixWeight(table, k - 1) + table[k][2]

\* C8: cumulative-weight roulette.  The id returned is that of the first table
\* position whose cumulative weight reaches the roll (the last id if none does),
\* it is an id of the table, and the table [(1, 1.0)] gives id 1 for every roll.
C8_Roulette ==
    pick_call.made =>
        LET table == sigil_globals.ACTIVE_SIGIL_WEIGHT_TABLE
            hits  == { k \in 1..Len(table) : pick_call.roll <= PrefixWeight(table, k) }
            want  == IF hits = {} THEN table[Len(table)][1]
                     ELSE table[CHOOSE k \in hits : \A j \in hits : k <= j][1]
        IN  /\ pick_call.out = want
            /\ pick_call.out \in WeightTableIds
            /\ (table = << <<1, 1000>> >> /\ sigil_globals.ACTIVE_SIGIL_TOTAL_WEIGHT = 1000)
                   => pick_call.out = 1

\* A draw from a two-entry table that passes the first entry exactly at its
\* boundary and one that returns the second.
C8_Witness ==
    /\ pick_call.made
    /\ Len(sigil_globals.ACTIVE_SIGIL_WEIGHT_TABLE) = 2
    /\ sigil_globals.ACTIVE_SIGIL_WEIGHT_TABLE[1][1] # sigil_globals.ACTIVE_SIGIL_WEIGHT_TABLE[2][1]
    /\ pick_call.roll > sigil_globals.ACTIVE_SIGIL_WEIGHT_TABLE[1][2]
    /\ pick_call.out = sigil_globals.ACTIVE_SIGIL_WEIGHT_TABLE[2][1]

\* A record of the index that ends up in the registry when nothing raises
UsableRecord(r) == r.id.ok /\ r.pbm = "good"

\* The index is absent, cannot be parsed (as a whole or at some record), or
\* lists no record whose raster resolves and decodes.
IndexYieldsNothing ==
    \/ reg_index.status # "ok"
    \/ \E k \in 1..Len(reg_index.records) : ~reg_index.records[k].id.ok
    \/ \A k \in 1..Len(reg_index.records) : ~UsableRecord(reg_index.records[k])

DefaultRasterLoads == LoadPbmMask(reg_default).status = "mask"

\* C10 as claimed: with nothing from the index and a default raster that loads,
\* the registry has exactly one entry and the weighted table is exactly that
\* entry with weight 1.0, total 1.0.
C10_FallbackUnitWeight ==
    (reg_pc # "import" /\ IndexYieldsNothing /\ DefaultRasterLoads)
        => /\ reg_pc = "loaded"
           /\ Len(sigil_globals.VERIFIED_SIGIL_REGISTRY) = 1
           /\ sigil_globals.ACTIVE_SIGIL_WEIGHT_TABLE
                  = << <<sigil_globals.VERIFIED_SIGIL_REGISTRY[1].id, 1000>> >>
           /\ sigil_globals.ACTIVE_SIGIL_TOTAL_WEIGHT = 1000

\* C10 amended: ... the weighted table is exactly that entry with weight 4.2,
\* total 4.2.
C10_FallbackEntry ==
    (reg_pc # "import" /\ IndexYieldsNothing /\ DefaultRasterLoads)
        => /\ reg_pc = "loaded"
           /\ Len(sigil_globals.VERIFIED_SIGIL_REGISTRY) = 1
           /\ sigil_globals.ACTIVE_SIGIL_WEIGHT_TABLE
                  = << <<sigil_globals.VERIFIED_SIGIL_REGISTRY[1].id, 4200>> >>
           /\ sigil_globals.ACTIVE_SIGIL_TOTAL_WEIGHT = 4200
           /\ sigil_globals.ACTIVE_VERIFIED_SIGIL_IDS
                  = << sigil_globals.VERIFIED_SIGIL_REGISTRY[1].id >>

\* The fallback taken after an index whose records were all dropped
C10_Witness ==
    /\ reg_pc = "loaded"
    /\ reg_index.status = "ok"
    /\ Len(reg_index.records) = 2
    /\ IndexYieldsNothing
    /\ DefaultRasterLoads
    /\ Len(sigil_globals.VERIFIED_SIGIL_REGISTRY) = 1
    /\ sigil_globals.SIGIL_MASKS_BY_ID[1].status = "mask"

\* The index document obeys its schema: every id is an integer and every weight
\* that is present is a number.
IndexWellTyped ==
    /\ reg_index.status = "ok"
    /\ \A k \in 1..Len(reg_index.records) :
          reg_index.records[k].id.ok /\ reg_index.records[k].weight.kind # "bad"

\* The record's raster file is missing or does not decode.
BadRaster(r) == r.pbm \in {"missing", "malformed"}

\* The positions of the index whose records resolve and decode
GoodPositions == { k \in 1..Len(reg_index.records) : UsableRecord(reg_index.records[k]) }

\* Record k of the index is in the registry, the mask map and the weighted table.
\* The mask map holds the raster of record k unless a later record of the same
\* id replaced it.
RecordLoaded(k) ==
    LET r == reg_index.records[k]
        g == sigil_globals
    IN  /\ \E i \in 1..Len(g.VERIFIED_SIGIL_REGISTRY) :
              /\ g.VERIFIED_SIGIL_REGISTRY[i].id = r.id.val
              /\ g.VERIFIED_SIGIL_REGISTRY[i].weight = r.weight
        /\ g.SIGIL_MASKS_BY_ID[r.id.val].status = "mask"
        /\ (\A j \in GoodPositions : j > k => reg_index.records[j].id.val # r.id.val)
               => g.SIGIL_MASKS_BY_ID[r.id.val] = LoadPbmMask(RegistryRasterFile(k, "good"))
        /\ r.id.val \in WeightTableIds

\* C11: a record whose raster file is missing or malformed is dropped without
\* error.  After the load of a well-typed index that lists such a record, at any
\* position, the load has not raised, every record whose raster resolves and
\* decodes is in the registry, the mask map and the weighted table, and the
\* registry and the table have no entry besides those records.
C11_BadRasterDropped ==
    (reg_pc # "import" /\ IndexWellTyped
       /\ \E k \in 1..Len(reg_index.records) : BadRaster(reg_index.records[k]))
        => /\ reg_pc = "loaded"
           /\ \A k \in GoodPositions : RecordLoaded(k)
           /\ GoodPositions # {}
                 => /\ Len(sigil_globals.VERIFIED_SIGIL_REGISTRY) = Cardinality(GoodPositions)
                    /\ Len(sigil_globals.ACTIVE_SIGIL_WEIGHT_TABLE) = Cardinality(GoodPositions)

\* A malformed raster listed before a good record: the good record alone is loaded
C11_Witness ==
    /\ reg_pc = "loaded"
    /\ IndexWellTyped
    /\ Len(reg_index.records) = 2
    /\ reg_index.records[1].pbm = "malformed"
    /\ GoodPositions = {2}
    /\ RecordLoaded(2)
    /\ Len(sigil_globals.VERIFIED_SIGIL_REGISTRY) = 1

\* The ids of the registry entries and the ids that have a mask
RegistryIds(g) == { g.VERIFIED_SIGIL_REGISTRY[i].id : i \in 1..Len(g.VERIFIED_SIGIL_REGISTRY) }

MaskIds(g) == { id \in SigilIds : g.SIGIL_MASKS_BY_ID[id].status = "mask" }

\* The active ids, the weighted table and the total weight are those of the
\* registry list (of the constant one-row table when the list is empty).
TableOfRegistry(g) ==
    IF Len(g.VERIFIED_SIGIL_REGISTRY) = 0
    THEN /\ g.ACTIVE_VERIFIED_SIGIL_IDS = <<g.LILITH_SIGIL_ID>>
         /\ g.ACTIVE_SIGIL_WEIGHT_TABLE = << <<g.LILITH_SIGIL_ID, UnitWeight>> >>
         /\ g.ACTIVE_SIGIL_TOTAL_WEIGHT = UnitWeight
    ELSE /\ g.ACTIVE_VERIFIED_SIGIL_IDS =
               [i \in 1..Len(g.VERIFIED_SIGIL_REGISTRY) |-> g.VERIFIED_SIGIL_REGISTRY[i].id]
         /\ Len(g.ACTIVE_SIGIL_WEIGHT_TABLE) = Len(g.VERIFIED_SIGIL_REGISTRY)
         /\ \A i \in 1..Len(g.VERIFIED_SIGIL_REGISTRY) :
               g.ACTIVE_SIGIL_WEIGHT_TABLE[i][1] = g.VERIFIED_SIGIL_REGISTRY[i].id
         /\ g.ACTIVE_SIGIL_TOTAL_WEIGHT
               = PrefixWeight(g.ACTIVE_SIGIL_WEIGHT_TABLE, Len(g.ACTIVE_SIGIL_WEIGHT_TABLE))

\* A special-variant id is the one the module started with, or the id of a
\* registry entry that carries the variant's flag.
SpecialIdsOfRegistry(g) ==
    /\ \/ g.LILITH_GRAND_SEAL_ID = InitialGlobals.LILITH_GRAND_SEAL_ID
       \/ \E i \in 1..Len(g.VERIFIED_SIGIL_REGISTRY) :
             /\ g.VERIFIED_SIGIL_REGISTRY[i].id = g.LILITH_GRAND_SEAL_ID
             /\ g.VERIFIED_SIGIL_REGISTRY[i].is_lilith_grand
    /\ \/ g.LILITH_SIGIL_ID = InitialGlobals.LILITH_SIGIL_ID
       \/ \E i \in 1..Len(g.VERIFIED_SIGIL_REGISTRY) :
             /\ g.VERIFIED_SIGIL_REGISTRY[i].id = g.LILITH_SIGIL_ID
             /\ \/ g.VERIFIED_SIGIL_REGISTRY[i].is_lilith_sigil
                \/ g.VERIFIED_SIGIL_REGISTRY[i].is_lilith_grand

\* C13: a registry load is atomic.  Once refresh_verified_sigil_registry has
\* returned, the mask map has a mask for exactly the ids of the registry list,
\* the active ids, the weighted table and the total weight are those of that
\* list, and the special-variant ids name entries of that list (or are
\* untouched), also when the parse of the index failed partway and the load
\* fell back.
C13_AtomicLoad ==
    reg_pc = "loaded" =>
        /\ MaskIds(sigil_globals) = RegistryIds(sigil_globals)
        /\ TableOfRegistry(sigil_globals)
        /\ SpecialIdsOfRegistry(sigil_globals)

\* C14: after any registry load the ids of the registry entries are pairwise
\* distinct, so are the ids of the weighted table, and every weight of the
\* table is > 0, whatever the index lists (the same id twice, a weight <= 0).
C14_DistinctIdsPositiveWeights ==
    reg_pc = "loaded" =>
        LET registry == sigil_globals.VERIFIED_SIGIL_REGISTRY
            table    == sigil_globals.ACTIVE_SIGIL_WEIGHT_TABLE
        IN  /\ \A i, j \in 1..Len(registry) : i # j => registry[i].id # registry[j].id
            /\ \A i, j \in 1..Len(table) : i # j => table[i][1] # table[j][1]
            /\ \A i \in 1..Len(table) : table[i][2] > 0

(***************************************************************************)
(* Claims about inject_sigil_excitation.                                   *)
(***************************************************************************)
\* the cell the call was aimed at
InjTarget == <<inj_call.x, inj_call.y>>

\* C5: injection is a monotone raise.  After every call of
\* inject_sigil_excitation every cell that had an entry still has one and its
\* intensity is >= the intensity before; a cell that had none (0.0 to the code)
\* holds a positive intensity if it has an entry now; and the target's intensity
\* changes only to the injected value, and only when that value exceeds the
\* existing one.
C5_MonotoneRaise ==
    inj_call.made =>
        /\ \A c \in DOMAIN inj_call.grid_before :
               c \in DOMAIN excitation_grid /\ excitation_grid[c] >= inj_call.grid_before[c]
        /\ \A c \in DOMAIN excitation_grid :
               excitation_grid[c] >= GridGet(inj_call.grid_before, c)
        /\ GridGet(excitation_grid, InjTarget) # GridGet(inj_call.grid_before, InjTarget) =>
               /\ inj_call.base_intensity > GridGet(inj_call.grid_before, InjTarget)
               /\ excitation_grid[InjTarget] = inj_call.base_intensity

\* a call with halo on a target that already holds more than the injected value:
\* the target keeps its value while a neighbour is raised and another, holding
\* more than the halo, keeps its own
C5_Witness ==
    /\ inj_call.made
    /\ inj_call.with_halo
    /\ InjTarget \in DOMAIN inj_call.grid_before
    /\ inj_call.grid_before[InjTarget] > inj_call.base_intensity
    /\ excitation_grid[InjTarget] = inj_call.grid_before[InjTarget]
    /\ \E c \in DOMAIN excitation_grid \ DOMAIN inj_call.grid_before : excitation_grid[c] > 0
    /\ \E c \in DOMAIN inj_call.grid_before :
           c # InjTarget /\ excitation_grid[c] = inj_call.grid_before[c]

\* C24 as stated: every call of inject_sigil_excitation, wherever it is aimed,
\* leaves the target cell in the spark output set.
C24_EveryCallAddsTarget == inj_call.made => InjTarget \in active_sparks

\* C24: every call of inject_sigil_excitation whose target lies inside the
\* viewport adds the target cell to the spark output set, whether or not the
\* call raised the cell's intensity, and removes nothing from the set; a call
\* aimed outside the viewport leaves the set as it was.
C24_InBoundsCallAddsTarget ==
    inj_call.made =>
        active_sparks = IF InBounds(inj_call.x, inj_call.y, InjWidth, InjHeight)
                        THEN inj_call.sparks_before \cup { InjTarget }
                        ELSE inj_call.sparks_before

\* a call on a cell that held more than the injected value: the intensity
\* stays, the cell has joined the spark set
C24_Witness ==
    /\ inj_call.made
    /\ InBounds(inj_call.x, inj_call.y, InjWidth, InjHeight)
    /\ GridGet(inj_call.grid_before, InjTarget) > inj_call.base_intensity
    /\ excitation_grid = inj_call.grid_before
    /\ InjTarget \notin inj_call.sparks_before
    /\ InjTarget \in active_sparks

\* C25: with the halo suppressed, inject_sigil_excitation changes at most the
\* target cell's grid entry and adds at most the target cell to the spark
\* output set: every other grid entry is as before, no entry appears at another
\* cell, and no draw of trng is consumed, whatever trng held ready.
C25_PlainCallLocal ==
    (inj_call.made /\ ~inj_call.with_halo) =>
        /\ \A c \in (DOMAIN excitation_grid \cup DOMAIN inj_call.grid_before) \ { InjTarget } :
               /\ c \in DOMAIN excitation_grid
               /\ c \in DOMAIN inj_call.grid_before
               /\ excitation_grid[c] = inj_call.grid_before[c]
        /\ active_sparks \subseteq inj_call.sparks_before \cup { InjTarget }
        /\ inj_call.sparks_before \subseteq active_sparks
        /\ inj_call.draws = 0

\* a call without halo that raised its target while a neighbouring cell held
\* an entry
C25_Witness ==
    /\ inj_call.made
    /\ ~inj_call.with_halo
    /\ InBounds(inj_call.x, inj_call.y, InjWidth, InjHeight)
    /\ GridGet(excitation_grid, InjTarget) = inj_call.base_intensity
    /\ GridGet(inj_call.grid_before, InjTarget) < inj_call.base_intensity
    /\ \E c \in DOMAIN inj_call.grid_before :
           c # InjTarget /\ Abs(c[1] - InjTarget[1]) <= 1 /\ Abs(c[2] - InjTarget[2]) <= 1

(***************************************************************************)
(* Claims about the frame loop of main.                                    *)
(***************************************************************************)
\* a pulse was appended in the pass that just ran: line 685 stamps it with this pass's t
PulseAppended == \E i \in 1..Len(active_pulses) : active_pulses[i].start_time = t

\* C4: at the end of every frame, whatever ignitions, decays, propagations and
\* render-time seedings it made, every entry of the excitation grid has an
\* intensity in (0, 1]: none is <= 0 and none is above 1.0.  (The same holds
\* where a pass was cut short by the exception of line 836.)
C4_IntensityInRange ==
    (main_pc # "idle" /\ frame_log.ran) =>
        \A c \in DOMAIN excitation_grid : excitation_grid[c] > 0 /\ excitation_grid[c] <= 10000

\* a pass that ended with the loop running on and left three kinds of entries:
\* one seeded at 1.0 by the render loops, one spread to at 0.94, and one that
\* has been decayed since its ignition
C4_Witness ==
    /\ main_pc = "running"
    /\ frame_log.ran
    /\ \E c \in DOMAIN excitation_grid :
           Rendered(c, frame_log) /\ excitation_grid[c] = 10000
    /\ \E c \in DOMAIN excitation_grid : c \in active_sparks /\ excitation_grid[c] = 9400
    /\ \E c \in DOMAIN excitation_grid : excitation_grid[c] < 9400

\* is a a prefix of b
IsPrefix(a, b) == Len(a) <= Len(b) /\ SubSeq(b, 1, Len(a)) = a

\* the pulses of the state that are at most 3.0 s old at time now
PulsesAlive(now) == SelectSeq(active_pulses, LAMBDA p : now - p.start_time <= 300)

\* the sigils of the state that are no older than their own lifespan at time now
SigilsAlive(now) == SelectSeq(active_sigils, LAMBDA sig : now - sig.start_time <= sig.life)

\* C26: expiry discipline.  After the cleanup steps of every normal frame each
\* active pulse is at most 3.0 s old and each active sigil no older than its
\* own lifespan; the events the frame found that are within their lifespan at
\* the frame's time are all still there, in their order and with every field
\* (centre, scale, mask id, spawn time, lifespan) as before, so an event is
\* removed only once its age exceeds its lifespan and a removal touches no
\* other event; whatever else is in the lists was created in this frame.
C26_Expiry ==
    [][frame_log'.ran =>
          /\ \A i \in 1..Len(active_pulses') : t' - active_pulses'[i].start_time <= 300
          /\ \A i \in 1..Len(active_sigils') :
                 t' - active_sigils'[i].start_time <= active_sigils'[i].life
          /\ IsPrefix(PulsesAlive(t'), active_pulses')
          /\ \A i \in (Len(PulsesAlive(t')) + 1)..Len(active_pulses') :
                 active_pulses'[i].start_time = t'
          /\ IsPrefix(SigilsAlive(t'), active_sigils')
          /\ \A i \in (Len(SigilsAlive(t')) + 1)..Len(active_sigils') :
                 active_sigils'[i].start_time = t']_vars

\* a frame that found two sigils and two pulses and removed the older of each:
\* the sigil and the pulse that stayed were created in earlier frames
C26_Witness ==
    /\ frame_log.ran
    /\ frame_log.sigils_before = 2
    /\ Len(active_sigils) = 1
    /\ active_sigils[1].start_time < t
    /\ frame_log.pulses_before = 2
    /\ Len(active_pulses) = 1
    /\ active_pulses[1].start_time < t

\* C27: whenever, after the buildup update of a frame, entropy_buildup exceeds
\* the effective threshold max(1.4, 2.0 - 0.25 * intent_dilation), exactly one
\* pulse stamped with the frame's elapsed time is appended and the buildup is
\* reset to 0; otherwise none is appended and the buildup stays; so at the end
\* of every frame 0 <= entropy_buildup <= the frame's effective threshold and
\* at most one pulse was appended.
C27_PulseOnThreshold ==
    [][frame_log'.ran =>
          /\ IF BuildUp(entropy_buildup, frame_log'.avg_entropy)
                   > Max(14000, 20000 - (intent_dilation' * 25) \div 100)
             THEN /\ entropy_buildup' = 0
                  /\ Cardinality({ i \in 1..Len(active_pulses') :
                                     active_pulses'[i].start_time = t' }) = 1
                  /\ active_pulses'[Len(active_pulses')].start_time = t'
             ELSE /\ entropy_buildup' = BuildUp(entropy_buildup, frame_log'.avg_entropy)
                  /\ \A i \in 1..Len(active_pulses') : active_pulses'[i].start_time # t'
          /\ entropy_buildup' >= 0
          /\ entropy_buildup' <= Max(14000, 20000 - (intent_dilation' * 25) \div 100)
          /\ Len(active_pulses') <= Len(active_pulses) + 1]_vars

\* a frame whose buildup, below 2.0 after the update, exceeded the threshold the
\* dilation had lowered, and fired
C27_Witness ==
    /\ frame_log.ran
    /\ BuildUp(frame_log.buildup_before, frame_log.avg_entropy) < 20000
    /\ BuildUp(frame_log.buildup_before, frame_log.avg_entropy) > 14000
    /\ entropy_buildup = 0
    /\ PulseAppended
    /\ intent_dilation > 0

\* C28: the intent bonus is bounded.  intent_target lies in [0, 1.5] for every
\* count of convergence hits the 160 samples can give; intent_dilation stays in
\* [0, 1.5] in every reachable state; and the rates derived from it stay within
\* their caps whether the gate is open or not: pulse threshold >= 1.4, ignite
\* chance <= 0.80, spread chance <= 0.72, decay rate >= 0.08.
C28_IntentBounded ==
    main_pc # "idle" =>
        /\ \A hits \in 0..160 : IntentTarget(hits) >= 0 /\ IntentTarget(hits) <= 15000
        /\ intent_dilation >= 0
        /\ intent_dilation <= 15000
        /\ EffectiveGateThreshold(intent_dilation) >= 14000
        /\ \A hits \in { 0, 4, 160 } :
               /\ IgniteChance(Locals, [convergence_hits |-> hits]) <= 8000
               /\ SpreadChance(Locals, [convergence_hits |-> hits]) <= 7200
               /\ ExciteDecay(Locals, [convergence_hits |-> hits]) >= 800

\* the dilation on its way to a clamped target, after a frame that pulled it
\* up and a frame that let it fall back
C28_Witness ==
    /\ main_pc = "running"
    /\ frame_log.ran
    /\ frame_log.convergence_hits = 0
    /\ frame_log.dilation_before > intent_dilation
    /\ intent_dilation > 0
    /\ IntentTarget(11) = 15000

\* the cells the propagation step of the last pass ignited, told by the grid:
\* below 0.2 (or absent) when the step began, at 0.94 when the pass ended (the
\* render loops seed only cells without excitation, and at 1.0)
IgnitedInStep ==
    { c \in DOMAIN excitation_grid :
        GridGet(frame_log.grid_in, c) < 2000 /\ excitation_grid[c] = 9400 }

\* the cells the render loops of the last pass seeded
SeededInPass ==
    { c \in DOMAIN excitation_grid :
        /\ Rendered(c, frame_log)
        /\ excitation_grid[c] = 10000
        /\ c \notin DOMAIN frame_log.grid_in }

\* C22: after a frame's propagation step the spark set consists exactly of the
\* cells ignited during that step; a cell that was in the spark set before the
\* step is not carried over unless it was ignited anew, so at the end of the
\* pass a cell of the old front is in the spark set only if the step ignited
\* it or the render loops seeded it.
C22_SparksReplaced ==
    frame_log.ran =>
        /\ frame_log.new_sparks = IgnitedInStep
        /\ active_sparks = frame_log.new_sparks \cup SeededInPass
        /\ \A c \in frame_log.sparks_in \ frame_log.new_sparks :
               c \in active_sparks => c \in SeededInPass

\* a pass whose propagation step began with a front of two cells, ignited a
\* third and dropped the two
C22_Witness ==
    /\ frame_log.ran
    /\ Cardinality(frame_log.sparks_in) = 2
    /\ Cardinality(frame_log.new_sparks) = 1
    /\ frame_log.sparks_in \cap frame_log.new_sparks = {}
    /\ frame_log.sparks_in \cap active_sparks = {}
    /\ \A c \in frame_log.sparks_in : c \in DOMAIN excitation_grid

\* C23: a cell is ignited by the propagation step only if it is one of the 8
\* neighbours of a cell of the spark set the step began with, lies inside the
\* viewport, had no grid entry or an intensity < 0.2 when the step reached it,
\* and some currently active sigil has a mask for it to lie on the outline of;
\* and no cell is ignited twice in one step: the step makes one injection per
\* ignited cell.
C23_IgnitionGuards ==
    frame_log.ran =>
        /\ \A c \in frame_log.new_sparks :
               /\ \E sp \in frame_log.sparks_in :
                      /\ Abs(c[1] - sp[1]) <= 1
                      /\ Abs(c[2] - sp[2]) <= 1
                      /\ c # sp
               /\ c[1] >= 0 /\ c[1] < frame_log.width
               /\ c[2] >= 0 /\ c[2] < frame_log.height
               /\ GridGet(frame_log.grid_in, c) < 2000
               /\ \E i \in 1..Len(active_sigils) :
                      /\ active_sigils[i].type_id \in DOMAIN sigil_globals.SIGIL_MASKS_BY_ID
                      /\ sigil_globals.SIGIL_MASKS_BY_ID[active_sigils[i].type_id].status = "mask"
        /\ frame_log.spread_injections = Cardinality(frame_log.new_sparks)

\* a step that reached an eligible cell from two sparks of the front and
\* ignited it once
C23_Witness ==
    /\ frame_log.ran
    /\ Cardinality(frame_log.new_sparks) = 1
    /\ frame_log.spread_injections = 1
    /\ \E c \in frame_log.new_sparks :
           Cardinality({ sp \in frame_log.sparks_in :
                           Abs(c[1] - sp[1]) <= 1 /\ Abs(c[2] - sp[2]) <= 1 /\ c # sp }) = 2

\* C33: excitation dies out without sigils.  In every normal pass that ends
\* with the sigil list empty no injection occurs (the propagation step ignites
\* nothing, no cell joins the grid, no intensity rises), the spark set is empty
\* at its end, every intensity, at most 1 before, has lost at least 0.08, and
\* once 13 such passes in a row have been made the grid is empty, and stays so.
C33_FadesWithoutSigils ==
    [][ (frame_log'.ran /\ active_sigils' = <<>>) =>
          /\ frame_log'.spread_injections = 0
          /\ frame_log'.new_sparks = {}
          /\ active_sparks' = {}
          /\ \A c \in DOMAIN excitation_grid : excitation_grid[c] <= 10000
          /\ \A c \in DOMAIN excitation_grid' :
                 /\ c \in DOMAIN excitation_grid
                 /\ excitation_grid'[c] <= excitation_grid[c] - 800
          /\ frame_log'.quiet_passes >= 13 => excitation_grid' = EmptyGrid ]_vars

\* the loop still running after 13 passes without a sigil, the first of which
\* began with excitation on the grid, and the grid empty
C33_Witness ==
    /\ main_pc = "running"
    /\ frame_log.ran
    /\ frame_log.quiet_passes = 13
    /\ active_sigils = <<>>
    /\ excitation_grid = EmptyGrid
    /\ active_sparks = {}

\* C12: when neither the index nor the default raster yields a mask, the
\* registry and the mask map are empty, is_point_in_sigil is false for every
\* active sigil whatever the point, and after any number of frames the
\* excitation grid and the spark set are empty (no injection took place) and
\* the loop has not raised, also while sigils are active.
C12_Inert ==
    main_pc # "idle" =>
        /\ sigil_globals.VERIFIED_SIGIL_REGISTRY = <<>>
        /\ sigil_globals.SIGIL_MASKS_BY_ID = NoMasks
        /\ \A i \in 1..Len(active_sigils) : \A on_thread \in BOOLEAN :
              ~IsPointInSigil(sigil_globals, active_sigils[i].type_id, on_thread)
        /\ excitation_grid = EmptyGrid
        /\ active_sparks = {}
        /\ main_pc # "crashed"

\* frames have run on a spawned sigil, after an index whose rasters all failed
C12_Witness ==
    /\ main_pc = "running"
    /\ reg_index.status = "ok"
    /\ frame_no >= 3
    /\ Len(active_sigils) = 1
    /\ excitation_grid = EmptyGrid

\* the pass just made had a viewport below 40x10
SmallViewport(log) == log.height < 10 \/ log.width < 40

\* C16: a pass whose viewport is below the minimum size (height < 10 or
\* width < 40) leaves the simulation state as it was: entropy_buildup, the
\* active pulses and sigils, the excitation grid, the spark set,
\* intent_dilation, the coherence walker and its target are unchanged, and the
\* loop goes on.
C16_SmallViewportFreezes ==
    [][ (frame_no' = frame_no + 1 /\ SmallViewport(frame_log'))
          => /\ UNCHANGED <<entropy_buildup, active_pulses, active_sigils, excitation_grid,
                            active_sparks, intent_dilation, coherence_walker,
                            target_coherence>>
             /\ main_pc' = main_pc ]_vars

\* a small-viewport pass made on a simulation that had moved: a pulse is
\* active, the dilation and the buildup are non-zero
C16_Witness ==
    /\ main_pc = "running"
    /\ frame_no >= 3
    /\ SmallViewport(frame_log)
    /\ ~frame_log.ran
    /\ Len(active_pulses) > 0
    /\ intent_dilation > 0
    /\ entropy_buildup > 0

\* C18: the per-frame exit check.  In every pass that reaches line 1007, a key
\* other than a resize read before the startup deadline (0.25 s) does not end
\* the loop, a resize event never ends it, and any other key read at or after
\* the deadline ends it in that pass; whatever was read has left the input
\* queue (the oldest waiting event is the one read).
C18_KeyGuard ==
    [][ (frame_no' = frame_no + 1 /\ frame_log'.ran /\ main_pc' # "crashed")
          => /\ frame_log'.key # "unread"
             /\ (frame_log'.key = "other" /\ frame_log'.check_at < GuardDeadline)
                    => main_pc' = "running"
             /\ frame_log'.key = "resize" => main_pc' = "running"
             /\ (frame_log'.key = "other" /\ frame_log'.check_at >= GuardDeadline)
                    => main_pc' = "exited"
             /\ key_queue # << >>
                    => /\ frame_log'.key = Head(key_queue)
                       /\ Len(key_queue') >= Len(key_queue) - 1
                       /\ SubSeq(key_queue', 1, Len(key_queue) - 1) = Tail(key_queue)
             /\ (key_queue = << >> /\ frame_log'.key # "none") => key_queue' = << >> ]_vars

\* a key read 0.2 s after start: it is gone from the queue and the loop runs on
C18_Witness ==
    /\ main_pc = "running"
    /\ frame_log.ran
    /\ frame_log.key = "other"
    /\ frame_log.check_at = 20
    /\ key_queue = << >>

\* a quit key waits in the input queue
QuitPending == \E i \in 1..Len(key_queue) : key_queue[i] = "other"

\* C17: the exit check is made in every pass, so a quit key pressed after the
\* startup grace window ends the loop, whatever the viewport is while the key
\* waits.  Whenever a quit key arrived in a pass begun at or after the deadline
\* and is waiting, the loop eventually ends.
C17_QuitEventually ==
    (/\ main_pc = "running"
     /\ frame_log.arrival = "other"
     /\ QuitPending
     /\ t >= GuardDeadline)
        ~> (main_pc # "running")

\* C19: a pass in which os.urandom is unavailable gets its width * height
\* entropy bytes from the fallback and proceeds: the loop does not raise and
\* the pass runs its simulation.
C19_EntropyFallback ==
    (frame_no > 0 /\ ~frame_log.urandom) => (main_pc # "crashed" /\ frame_log.ran)

\* The cells the render loops of the last pass met with excitation > 0: a
\* rendered cell whose entry is below 1.0 got it before the render loops ran
\* (ignition decayed since, or a spread at 0.94); the loops themselves only
\* seed at 1.0.
MetExcited ==
    { c \in DOMAIN excitation_grid :
        Rendered(c, frame_log) /\ excitation_grid[c] > 0 /\ excitation_grid[c] < 10000 }

\* C20: a pass whose render loops meet a cell with excitation > 0 composes that
\* cell from the excitation tiers and completes its rendering normally.
C20_ExcitedRenderCompletes ==
    (frame_log.ran /\ MetExcited # {}) => main_pc # "crashed"

(***************************************************************************)
(* Claims about the glyph catalog (checked under SpecGlyph).               *)
(***************************************************************************)
\* the filtered, deduplicated set of a family: the safe code points of its
\* ranges and of its extension, stated without the builder's loops
FamilySet(name) ==
    { c \in glyph_safe :
        \/ \E i \in 1..Len(FamilyRanges(name)) :
              FamilyRanges(name)[i][1] <= c /\ c <= FamilyRanges(name)[i][2]
        \/ \E i \in 1..Len(FamilyExtension(name)) : FamilyExtension(name)[i] = c }

\* what a family offers: its set, or the placeholder alone when the set is empty
FamilyOffer(name) == IF FamilySet(name) = {} THEN { Placeholder } ELSE FamilySet(name)

FamilyNames == { BLOCK_KEYS[i] : i \in 1..Len(BLOCK_KEYS) }

\* C15: get_text_glyph is total and pure.  Every family of the catalog is
\* non-empty, lists each glyph once and holds exactly its filtered set (the
\* placeholder alone when that set is empty); for every entropy byte 0..255
\* and entropy value in [0, 1] the call returns a glyph of one family, and the
\* same call made again returns the same glyph.
C15_GlyphTotalPure ==
    glyph_globals.SIGIL_BLOCKS # << >> =>
        /\ \A name \in FamilyNames :
              LET block == glyph_globals.SIGIL_BLOCKS[name]
              IN  /\ Len(block) > 0
                  /\ { block[i] : i \in 1..Len(block) } = FamilyOffer(name)
                  /\ \A i, j \in 1..Len(block) : i # j => block[i] # block[j]
        /\ glyph_call.made => \E name \in FamilyNames : glyph_call.out \in FamilyOffer(name)
        /\ glyph_call.repeated => glyph_call.again = glyph_call.out

\* a repeated call that fell on a family whose every code point was filtered out
C15_Witness ==
    /\ glyph_call.repeated
    /\ glyph_call.out = Placeholder
    /\ glyph_call.entropy_byte > 0
    /\ glyph_call.num > 0
    /\ FamilySet("deity") = {}
    /\ FamilySet("latin") # {}

\* C9: in a frame whose entropy mean does not exceed 0.51, entropy_buildup does
\* not increase and no pulse is appended, from every reachable state of the
\* schedulers, the rise of intent_dilation in that frame and the lower effective
\* threshold it brings included.
C9_QuietFrame ==
    (main_pc # "idle" /\ frame_log.ran /\ frame_log.avg_entropy <= 5100) =>
        /\ entropy_buildup <= frame_log.buildup_before
        /\ ~PulseAppended
        /\ Len(active_pulses) <= frame_log.pulses_before

\* a frame with an all-zero entropy buffer in which intent_dilation rose and
\* lowered the effective threshold to within the 0.05 of decay above the buildup
\* the frame started from
C9_Witness ==
    /\ main_pc = "running"
    /\ frame_log.ran
    /\ frame_log.avg_entropy = 0
    /\ intent_dilation > frame_log.dilation_before
    /\ EffectiveGateThreshold(intent_dilation) < EffectiveGateThreshold(frame_log.dilation_before)
    /\ frame_log.buildup_before + 500 > EffectiveGateThreshold(intent_dilation)
    /\ entropy_buildup = frame_log.buildup_before - 500

(***************************************************************************)
(* Claims about the cell compositor (checked under SpecCell).              *)
(***************************************************************************)
\* the cell meets the seeding conditions of line 947 on its own values
SeedReady ==
    /\ cell_in.pulse > 85
    /\ EntValAbove(cell_in.ent_byte, 90)
    /\ cell_in.local_emergence > 35
    /\ cell_in.on_thread

\* C21: spark seeding is independent of the layers above it.  For every
\* rendered cell with pulse > 0.85, entropy > 0.9 and emergence > 0.35 that
\* lies on the outline of an active sigil the injection is performed in that
\* pass of the loop, whichever layer (excitation, pulse override, lightning,
\* base field) decided the cell's glyph.
C21_SeedingIndependent ==
    (cell_out.made /\ SeedReady) => cell_out.injected

\* C29: a non-excited cell for which some active pulse triggers the toroidal
\* override (ring field > 0.35 and entropy > 0.25) is drawn with a non-blank
\* glyph, as a lightning cell or as mycelial structure, never blank and never
\* through the star-field branch, whatever its own field, pulse and emergence.
C29_OverrideDraws ==
    (/\ cell_out.made
     /\ cell_in.excite = 0
     /\ cell_in.rings > 0
     /\ EntValAbove(cell_in.ent_byte, 25)) =>
        /\ ~cell_out.raised
        /\ cell_out.drawn
        /\ cell_out.char # "blank"
        /\ cell_out.branch \in { "lightning", "mycelium", "mycelium_pulse" }

\* an overridden cell whose own values would have left it blank: emergence at
\* 0.35, pulse at 0.5, field above 0.2 with no star
C29_Witness ==
    /\ cell_out.made
    /\ cell_in.excite = 0
    /\ cell_in.rings = 2
    /\ cell_in.ent_byte = 64
    /\ cell_in.local_emergence = 35
    /\ cell_in.pulse = 50
    /\ cell_in.field = 21
    /\ ~cell_in.hash1
    /\ ~cell_in.hash2
    /\ cell_out.branch = "mycelium"
    /\ cell_out.drawn

====
